---- MODULE Spec2Model ----
(***************************************************************************)
(* Model of the proposal analysis pipeline (analyze.py, utils.py):         *)
(* the retrying network call call_llm, the sequential caller               *)
(* call_llm_batch, and the three classification stage functions            *)
(* phase2_business_clustering, phase3_architecture_classification and      *)
(* phase4_implementation_classification.                                   *)
(*                                                                         *)
(* Python values are tagged tuples: <<"str", chars>>, <<"int", n>>,        *)
(* <<"list", elems>>, <<"dict", d>>, <<"null">> (None).  A str is the      *)
(* sequence of its characters, so that ', '.join and split are computed.   *)
(* A dict is [keys |-> insertion order, val |-> mapping].  The text of a   *)
(* model reply is a sequence of tokens: prose, the four delimiters, the    *)
(* comma, and whole JSON scalars, objects and members.                     *)
(***************************************************************************)
EXTENDS Integers, Sequences, FiniteSets, TLC

VARIABLES
    entry,          \* the function being run: a stage or call_llm_batch
    pc,             \* position inside that function
    proposals,      \* the record list, annotated in place
    proposals0,     \* the record list as the stage function received it
    batch_num,      \* 1-based number of the batch being processed
    system_types,   \* vocabulary discovered by the business stage
    prompt,         \* prompt handed to call_llm
    files,          \* outputs directory: file name -> content or NoFile
    batch_log,      \* what call_llm gave for each batch processed so far
    prompts,        \* call_llm_batch: prompts still to send
    responses,      \* call_llm_batch: responses collected so far
    max_retries,    \* call_llm: attempt cap of the running call
    attempt,        \* call_llm: loop variable
    call_trace,     \* call_llm: requests (with the API's answer) and sleeps
                    \* (with their seconds) of the running call, in order
    call_pc,        \* call_llm: idle / request / sleep / returned / raised
    call_result,    \* call_llm: returned text or raised error
    discovery_log,  \* what call_llm gave for the discovery prompt
    first_run,      \* a second run of the stage: what the first run left
    dir_exists,     \* whether the data directory exists
    companies_dir,  \* data directory: company name -> its proposals file
    console,        \* errors and warnings printed by extraction and main
    args,           \* main: the parsed command line
    main_pc,        \* main: position, "none" outside a run of main
    api_key         \* whether ANTHROPIC_API_KEY is set

vars == <<entry, pc, proposals, proposals0, batch_num, system_types, prompt,
          files, batch_log, prompts, responses, max_retries, attempt,
          call_trace, call_pc, call_result, discovery_log, first_run,
          dir_exists, companies_dir, console, args, main_pc, api_key>>

call_vars == <<max_retries, attempt, call_trace, call_pc, call_result>>
stage_vars == <<proposals, proposals0, batch_num, system_types, files, batch_log,
                discovery_log>>
\* state outside the function being run
pipeline_vars == <<first_run, dir_exists, companies_dir, console, args, main_pc,
                   api_key>>

\* first_run while no second run is under way
NoFirstRun == [replay |-> FALSE]

\* a function called on its own, outside main and without a second run
CalledAlone ==
    /\ first_run = NoFirstRun
    /\ dir_exists = TRUE
    /\ companies_dir = <<>>
    /\ console = <<>>
    /\ args = <<>>
    /\ main_pc = "none"
    /\ api_key = TRUE
batch_caller_vars == <<prompts, responses>>

(***************************************************************************)
(* Bounds of the model                                                     *)
(***************************************************************************)
MaxRecords == 3
\* the stages' batch_size (12, 10 and 8 in analyze.py) and the discovery
\* sample (60), scaled down so that a few records fill several batches
BatchSize == 2
DiscoverySample == 2
MaxRetriesBound == 4
MaxPrompts == 2

(***************************************************************************)
(* Python values                                                           *)
(***************************************************************************)
None == <<"null">>
Str(s) == <<"str", s>>
PInt(n) == <<"int", n>>
List(l) == <<"list", l>>
Dict(d) == <<"dict", d>>

IsStr(v) == v[1] = "str"
IsInt(v) == v[1] = "int"
IsList(v) == v[1] = "list"
IsDict(v) == v[1] = "dict"

Range(s) == {s[i] : i \in DOMAIN s}
\* a sequence given by a function expression, with every element computed
Evaluated(seq) == seq \o <<>>
\* F(v), with v computed once
Apply(F(_), v) == CHOOSE r \in {F(x) : x \in {v}} : TRUE

RECURSIVE Pow2(_)
Pow2(n) == IF n = 0 THEN 1 ELSE 2 * Pow2(n - 1)

(***************************************************************************)
(* Python str: a sequence of characters                                    *)
(***************************************************************************)
Unknown == Str(<<"U", "n", "k", "n", "o", "w", "n">>)
unknown_lower == Str(<<"u", "n", "k", "n", "o", "w", "n">>)
low == Str(<<"l", "o", "w">>)
EmptyStr == Str(<<>>)
CommaSpace == <<",", " ">>

RECURSIVE Concat(_, _)
\* sep.join(parts) on character sequences
Concat(parts, sep) ==
    IF parts = <<>> THEN <<>>
    ELSE IF Len(parts) = 1 THEN parts[1]
    ELSE parts[1] \o sep \o Concat(Tail(parts), sep)

\* iterating a str gives its characters, each a str of length one
CharsOf(v) == [i \in 1..Len(v[2]) |-> Str(<<v[2][i]>>)]

\* ', '.join(v): <<TRUE, str>> or <<FALSE, None>> when a TypeError is raised
\* (v not iterable, or an element that is not a str)
join_comma(v) ==
    LET items == IF IsList(v) THEN v[2] ELSE IF IsStr(v) THEN CharsOf(v) ELSE <<>>
    IN  IF (IsList(v) \/ IsStr(v)) /\ \A i \in DOMAIN items : IsStr(items[i])
        THEN <<TRUE, Str(Concat([i \in DOMAIN items |-> items[i][2]], CommaSpace))>>
        ELSE <<FALSE, None>>

(***************************************************************************)
(* Python dict: insertion-ordered keys and a mapping                       *)
(***************************************************************************)
EmptyDict == [keys |-> <<>>, val |-> [k \in {} |-> None]]

HasKey(d, k) == k \in DOMAIN d.val

\* d[k] = v: a new key goes last, an existing key keeps its place
DictSet(d, k, v) ==
    [keys |-> IF HasKey(d, k) THEN d.keys ELSE Append(d.keys, k),
     val  |-> (k :> v) @@ d.val]

\* d.get(k, default)
DictGet(d, k, default) == IF HasKey(d, k) THEN d.val[k] ELSE default

\* the distinct elements of a sequence, in the order of their first occurrence
FirstOccurrences(seq) ==
    LET firsts == SelectSeq([i \in DOMAIN seq |-> i],
                            LAMBDA i : \A j \in 1..(i - 1) : seq[j] # seq[i])
    IN  [n \in DOMAIN firsts |-> seq[firsts[n]]]

\* the dict built by assigning the <<key, value>> pairs in order: a key keeps
\* the place of its first assignment and the value of its last
DictOf(pairs) ==
    LET ks == [i \in DOMAIN pairs |-> pairs[i][1]]
        last(k) == CHOOSE i \in DOMAIN pairs :
                       pairs[i][1] = k /\ \A j \in (i + 1)..Len(pairs) : pairs[j][1] # k
    IN  [keys |-> FirstOccurrences(ks),
         val  |-> [k \in Range(ks) |-> pairs[last(k)][2]]]

\* truth value of a Python object
Truthy(v) ==
    CASE v[1] = "null" -> FALSE
      [] v[1] = "list" -> v[2] # <<>>
      [] v[1] = "dict" -> v[2].keys # <<>>
      [] v[1] = "str"  -> v[2] # <<>>
      [] v[1] = "int"  -> v[2] # 0

(***************************************************************************)
(* Reply texts and extract_json_from_response (utils.py)                   *)
(*                                                                         *)
(* Tokens: W is prose without delimiters; LB, RB, LC, RC are the           *)
(* characters [ ] { }; COMMA the comma; a value token is a whole JSON      *)
(* scalar or (after the first LB of the text) a whole JSON object; a       *)
(* member token is one "key": value pair of an object, a key token the     *)
(* "key": in front of a value spelled out in tokens.                       *)
(***************************************************************************)
W == <<"w">>
LB == <<"[">>
RB == <<"]">>
LC == <<"{">>
RC == <<"}">>
COMMA == <<",">>
Member(k, v) == <<"member", k, v>>
Key(k) == <<"key", k>>

IsValueToken(t) == t[1] \in {"str", "int", "null", "dict", "list"}
IsMemberToken(t) == t[1] = "member"
IsKeyToken(t) == t[1] = "key"

\* str.find(ch): 0-based index of the first occurrence, -1 when there is none
find(text, ch) ==
    IF \E i \in DOMAIN text : text[i] = ch
    THEN (CHOOSE i \in DOMAIN text :
              text[i] = ch /\ \A j \in 1..(i - 1) : text[j] # ch) - 1
    ELSE -1

\* str.rfind(ch): 0-based index of the last occurrence, -1 when there is none
rfind(text, ch) ==
    IF \E i \in DOMAIN text : text[i] = ch
    THEN (CHOOSE i \in DOMAIN text :
              text[i] = ch /\ \A j \in (i + 1)..Len(text) : text[j] # ch) - 1
    ELSE -1

\* text[a:b] for 0 <= a
Slice(text, a, b) == SubSeq(text, a + 1, IF b > Len(text) THEN Len(text) ELSE b)

\* The JSON decoder, by recursive descent over the tokens.  Each operator
\* gives [ok |-> whether a construct was read, val |-> its value,
\* next |-> the position after it].
ParseFailed == [ok |-> FALSE, val |-> None, next |-> 0]

RECURSIVE parse_value(_, _), parse_items(_, _, _, _), parse_members(_, _, _, _)

\* a value at position i
parse_value(text, i) ==
    IF i > Len(text) THEN ParseFailed
    ELSE IF IsValueToken(text[i]) THEN [ok |-> TRUE, val |-> text[i], next |-> i + 1]
    ELSE IF text[i] = LB THEN parse_items(text, i + 1, <<>>, TRUE)
    ELSE IF text[i] = LC THEN parse_members(text, i + 1, <<>>, TRUE)
    ELSE ParseFailed

\* the rest of an array from position i; `first`: no element was read yet
parse_items(text, i, acc, first) ==
    IF i > Len(text) THEN ParseFailed
    ELSE IF first /\ text[i] = RB
    THEN [ok |-> TRUE, val |-> List(acc), next |-> i + 1]
    ELSE LET r == parse_value(text, i)
         IN  IF ~r.ok \/ r.next > Len(text) THEN ParseFailed
             ELSE IF text[r.next] = RB
             THEN [ok |-> TRUE, val |-> List(Append(acc, r.val)),
                   next |-> r.next + 1]
             ELSE IF text[r.next] = COMMA
             THEN parse_items(text, r.next + 1, Append(acc, r.val), FALSE)
             ELSE ParseFailed

\* the rest of an object from position i; acc holds <<key, value>> pairs
parse_members(text, i, acc, first) ==
    IF i > Len(text) THEN ParseFailed
    ELSE IF first /\ text[i] = RC
    THEN [ok |-> TRUE, val |-> Dict(DictOf(acc)), next |-> i + 1]
    ELSE LET r == IF IsMemberToken(text[i])
                  THEN [ok |-> TRUE, val |-> <<text[i][2], text[i][3]>>,
                        next |-> i + 1]
                  ELSE IF IsKeyToken(text[i])
                  THEN LET v == parse_value(text, i + 1)
                       IN  [ok |-> v.ok, val |-> <<text[i][2], v.val>>,
                            next |-> v.next]
                  ELSE ParseFailed
         IN  IF ~r.ok \/ r.next > Len(text) THEN ParseFailed
             ELSE IF text[r.next] = RC
             THEN [ok |-> TRUE, val |-> Dict(DictOf(Append(acc, r.val))),
                   next |-> r.next + 1]
             ELSE IF text[r.next] = COMMA
             THEN parse_members(text, r.next + 1, Append(acc, r.val), FALSE)
             ELSE ParseFailed

\* json.loads: <<TRUE, value>>, or <<FALSE, None>> for a JSONDecodeError
\* (no value at the start, or extra data after it)
json_loads(text) ==
    LET r == parse_value(text, 1)
    IN  IF r.ok /\ r.next = Len(text) + 1 THEN <<TRUE, r.val>>
        ELSE <<FALSE, None>>

\* a variant that starts at whichever of '[' and '{' comes first
extract_json_from_response_EarliestOpen(response) ==
    LET sq == find(response, LB)
        cu == find(response, LC)
        start_idx == IF sq = -1 THEN cu
                     ELSE IF cu = -1 THEN sq
                     ELSE IF sq < cu THEN sq ELSE cu
        end_idx == IF start_idx # -1 /\ response[start_idx + 1] = LB
                   THEN rfind(response, RB) + 1
                   ELSE rfind(response, RC) + 1
        parsed == json_loads(Slice(response, start_idx, end_idx))
    IN  IF start_idx = -1 THEN None
        ELSE IF end_idx <= start_idx THEN None
        ELSE IF parsed[1] THEN parsed[2] ELSE None

\* a variant that ends at the first closing delimiter
extract_json_from_response_FirstClose(response) ==
    LET sq == find(response, LB)
        start_idx == IF sq = -1 THEN find(response, LC) ELSE sq
        end_idx == IF start_idx # -1 /\ response[start_idx + 1] = LB
                   THEN find(response, RB) + 1
                   ELSE find(response, RC) + 1
        parsed == json_loads(Slice(response, start_idx, end_idx))
    IN  IF start_idx = -1 THEN None
        ELSE IF end_idx <= start_idx THEN None
        ELSE IF parsed[1] THEN parsed[2] ELSE None

extract_json_from_response(response) ==
    LET sq == find(response, LB)
        start_idx == IF sq = -1 THEN find(response, LC) ELSE sq
        end_idx == IF start_idx # -1 /\ response[start_idx + 1] = LB
                   THEN rfind(response, RB) + 1
                   ELSE rfind(response, RC) + 1
        parsed == json_loads(Slice(response, start_idx, end_idx))
    IN  IF start_idx = -1 THEN None
        ELSE IF end_idx <= start_idx THEN None
        ELSE IF parsed[1] THEN parsed[2] ELSE None

(***************************************************************************)
(* Label fields and sentinel defaults of the three stages (analyze.py)     *)
(***************************************************************************)
Phase1 == "phase1_extract_proposals"
Phase2 == "phase2_business_clustering"
Phase3 == "phase3_architecture_classification"
Phase4 == "phase4_implementation_classification"
Stages == {Phase2, Phase3, Phase4}

BusinessFields == <<"business_use_case">>

ArchFields ==
    <<"architecture_pattern", "reasoning_pattern", "execution_pattern",
      "knowledge_representation", "input_modalities", "tool_integration",
      "human_oversight", "architecture_confidence">>

ImplFields ==
    <<"data_complexity", "integration_complexity", "prompt_complexity",
      "chain_depth", "schema_complexity", "state_management",
      "error_handling", "evaluation_complexity", "domain_expertise",
      "latency_requirements", "regulatory_requirements",
      "rerepresentation_type">>

StageFields(stage) ==
    CASE stage = Phase2 -> BusinessFields
      [] stage = Phase3 -> ArchFields
      [] stage = Phase4 -> ImplFields

\* the key of a classification object that holds the 1-based record index
index_key(stage) == IF stage = Phase2 THEN "idx" ELSE "proposal_index"

\* prop[f] = vals[f] for each of the (distinct) fields f, in order: new keys
\* go last in that order, existing keys keep their place
SetFields(prop, fields, vals) ==
    [keys |-> prop.keys \o SelectSeq(fields, LAMBDA f : ~HasKey(prop, f)),
     val  |-> [f \in Range(fields) |-> vals[f]] @@ prop.val]

add_default_business_field(prop) == DictSet(prop, "business_use_case", Unknown)

add_default_architecture_fields(prop) ==
    SetFields(prop, ArchFields,
              [f \in Range(ArchFields) |->
                  IF f = "architecture_confidence" THEN low ELSE Unknown])

add_default_implementation_fields(prop) ==
    SetFields(prop, ImplFields, [f \in Range(ImplFields) |-> Unknown])

\* a variant whose loop starts at the second record
add_default_fields_SkipFirst(stage, batch) ==
    [i \in DOMAIN batch |->
        IF i = 1 THEN batch[i]
        ELSE CASE stage = Phase2 -> add_default_business_field(batch[i])
               [] stage = Phase3 -> add_default_architecture_fields(batch[i])
               [] stage = Phase4 -> add_default_implementation_fields(batch[i])]

\* for prop in batch: <the stage's defaults>
add_default_fields(stage, batch) ==
    [i \in DOMAIN batch |->
        CASE stage = Phase2 -> add_default_business_field(batch[i])
          [] stage = Phase3 -> add_default_architecture_fields(batch[i])
          [] stage = Phase4 -> add_default_implementation_fields(batch[i])]

(***************************************************************************)
(* Merging one classification object into its batch.  The result is        *)
(* [batch |-> the batch after the statements that ran, raised |-> whether  *)
(* a KeyError or TypeError left the loop].                                 *)
(***************************************************************************)
Done(batch) == [batch |-> batch, raised |-> FALSE]
Raised(batch) == [batch |-> batch, raised |-> TRUE]

\* classif[index_key] - 1 can be computed
HasIntIndex(stage, classif) ==
    /\ IsDict(classif)
    /\ HasKey(classif[2], index_key(stage))
    /\ IsInt(classif[2].val[index_key(stage)])

prop_idx_of(stage, classif) == classif[2].val[index_key(stage)][2] - 1

\* a variant without the lower bound of the guard
InBounds_NoLower(prop_idx, batch) == prop_idx < Len(batch)

InBounds(prop_idx, batch) == 0 <= prop_idx /\ prop_idx < Len(batch)

\* the position that Python's batch[prop_idx] denotes (a negative index
\* counts from the end)
At(batch, prop_idx) ==
    IF prop_idx >= 0 THEN prop_idx + 1 ELSE Len(batch) + prop_idx + 1

\* a variant that joins the type to a label the record already has
apply_business_Accumulate(batch, classif) ==
    IF ~HasIntIndex(Phase2, classif) THEN Raised(batch)
    ELSE LET prop_idx == prop_idx_of(Phase2, classif)
             c == classif[2]
             old == DictGet(batch[At(batch, prop_idx)], "business_use_case", None)
         IN  IF ~InBounds(prop_idx, batch) THEN Done(batch)
             ELSE IF ~HasKey(c, "type") THEN Raised(batch)
             ELSE Done([batch EXCEPT ![At(batch, prop_idx)] =
                           DictSet(@, "business_use_case",
                                   IF IsStr(old) /\ IsStr(c.val["type"])
                                   THEN Str(old[2] \o CommaSpace \o c.val["type"][2])
                                   ELSE c.val["type"])])

apply_business(batch, classif) ==
    IF ~HasIntIndex(Phase2, classif) THEN Raised(batch)
    ELSE LET prop_idx == prop_idx_of(Phase2, classif)
             c == classif[2]
         IN  IF ~InBounds(prop_idx, batch) THEN Done(batch)
             ELSE IF ~HasKey(c, "type") THEN Raised(batch)
             ELSE Done([batch EXCEPT ![At(batch, prop_idx)] =
                           DictSet(@, "business_use_case", c.val["type"])])

apply_architecture(batch, classif) ==
    IF ~HasIntIndex(Phase3, classif) THEN Raised(batch)
    ELSE LET prop_idx == prop_idx_of(Phase3, classif)
             c == classif[2]
             i == At(batch, prop_idx)
             get(k) == DictGet(c, k, Unknown)
             p1 == SetFields(batch[i],
                       <<"architecture_pattern", "reasoning_pattern",
                         "execution_pattern">>,
                       [f \in {"architecture_pattern", "reasoning_pattern",
                               "execution_pattern"} |-> get(f)])
             kr == get("knowledge_representation")
             kr_joined == join_comma(kr)
             p2 == DictSet(p1, "knowledge_representation",
                           IF IsList(kr) THEN kr_joined[2] ELSE kr)
             modalities == DictGet(c, "input_modalities", List(<<Unknown>>))
             mod_joined == join_comma(modalities)
             p3 == DictSet(p2, "input_modalities", mod_joined[2])
             p4 == SetFields(p3,
                       <<"tool_integration", "human_oversight",
                         "architecture_confidence">>,
                       [f \in {"tool_integration", "human_oversight",
                               "architecture_confidence"} |->
                           IF f = "architecture_confidence"
                           THEN DictGet(c, "confidence", unknown_lower)
                           ELSE get(f)])
         IN  IF ~InBounds(prop_idx, batch) THEN Done(batch)
             ELSE IF IsList(kr) /\ ~kr_joined[1]
                  THEN Raised([batch EXCEPT ![i] = p1])
             ELSE IF ~mod_joined[1] THEN Raised([batch EXCEPT ![i] = p2])
             ELSE Done([batch EXCEPT ![i] = p4])

apply_implementation(batch, classif) ==
    IF ~HasIntIndex(Phase4, classif) THEN Raised(batch)
    ELSE LET prop_idx == prop_idx_of(Phase4, classif)
             c == classif[2]
             i == At(batch, prop_idx)
             plain == SubSeq(ImplFields, 1, Len(ImplFields) - 1)
             p1 == SetFields(batch[i], plain,
                       [f \in Range(plain) |-> DictGet(c, f, Unknown)])
             rerep == DictGet(c, "rerepresentation_type", Unknown)
             rerep_joined == join_comma(rerep)
             p2 == DictSet(p1, "rerepresentation_type",
                           IF IsList(rerep) THEN rerep_joined[2] ELSE rerep)
         IN  IF ~InBounds(prop_idx, batch) THEN Done(batch)
             ELSE IF IsList(rerep) /\ ~rerep_joined[1]
                  THEN Raised([batch EXCEPT ![i] = p1])
             ELSE Done([batch EXCEPT ![i] = p2])

apply_classification(stage, batch, classif) ==
    CASE stage = Phase2 -> apply_business(batch, classif)
      [] stage = Phase3 -> apply_architecture(batch, classif)
      [] stage = Phase4 -> apply_implementation(batch, classif)

\* iterating a list gives its elements, iterating a dict its keys (each a
\* str, of which only the type matters to the loop body)
IterItems(v) ==
    IF IsList(v) THEN v[2]
    ELSE [i \in DOMAIN v[2].keys |-> Str(<<v[2].keys[i]>>)]

RECURSIVE apply_all(_, _, _)
\* for classif in classifications: ... ; stops at the first exception
apply_all(stage, batch, items) ==
    IF items = <<>> THEN Done(batch)
    ELSE LET step == apply_classification(stage, batch, Head(items))
         IN  IF step.raised THEN step
             ELSE apply_all(stage, step.batch, Tail(items))

\* the body of the batch loop after call_llm returned `response`
merge_response(stage, batch, response) ==
    LET classifications == extract_json_from_response(response)
        merged == apply_all(stage, batch, IterItems(classifications))
    IN  IF Truthy(classifications)
        THEN IF merged.raised THEN add_default_fields(stage, merged.batch)
             ELSE merged.batch
        ELSE add_default_fields(stage, batch)

(***************************************************************************)
(* batch_items (utils.py)                                                  *)
(***************************************************************************)
Min(a, b) == IF a < b THEN a ELSE b

NumBatches(n, k) == (n + k - 1) \div k
BatchLo(b, k) == (b - 1) * k + 1
BatchHi(b, k, n) == Min(b * k, n)

\* a variant that yields the full batches only
batch_items_FullOnly(items, size) ==
    [b \in 1..(Len(items) \div size) |->
        SubSeq(items, BatchLo(b, size), b * size)]

batch_items(items, size) ==
    [b \in 1..NumBatches(Len(items), size) |->
        SubSeq(items, BatchLo(b, size), BatchHi(b, size, Len(items)))]

(***************************************************************************)
(* Aggregation: count_values, print_distribution (utils.py)                *)
(***************************************************************************)
DefaultTopN == 15
BusinessTopN == 20

ContainsCommaSpace(chars) ==
    \E i \in 1..(Len(chars) - 1) : chars[i] = "," /\ chars[i + 1] = " "

RECURSIVE split_comma(_)
\* chars.split(', ')
split_comma(chars) ==
    IF ~ContainsCommaSpace(chars) THEN <<chars>>
    ELSE LET i == CHOOSE k \in 1..(Len(chars) - 1) :
                      /\ chars[k] = "," /\ chars[k + 1] = " "
                      /\ \A j \in 1..(k - 1) :
                             ~(chars[j] = "," /\ chars[j + 1] = " ")
         IN  <<SubSeq(chars, 1, i - 1)>>
                 \o split_comma(SubSeq(chars, i + 2, Len(chars)))

RECURSIVE FlattenSeq(_)
FlattenSeq(ss) == IF ss = <<>> THEN <<>> ELSE Head(ss) \o FlattenSeq(Tail(ss))

\* a variant that appends every value whole
counted_values_NoSplit(items, field) ==
    [i \in DOMAIN items |-> DictGet(items[i], field, Unknown)]

\* the list `values` that count_values builds
counted_values(items, field) ==
    FlattenSeq([i \in DOMAIN items |->
        LET val == DictGet(items[i], field, Unknown)
        IN  IF IsStr(val) /\ ContainsCommaSpace(val[2])
            THEN LET parts == split_comma(val[2])
                 IN  [j \in DOMAIN parts |-> Str(parts[j])]
            ELSE <<val>>])

Hashable(v) == ~IsList(v) /\ ~IsDict(v)

\* dict(Counter(values)): first-occurrence order, value -> number of occurrences
Counter(values) ==
    [keys |-> FirstOccurrences(values),
     val  |-> [v \in Range(values) |->
                  Cardinality({i \in DOMAIN values : values[i] = v})]]

\* [raised |-> a TypeError (unhashable value) left the function, counts |-> result]
count_values(items, field) ==
    LET values == counted_values(items, field)
    IN  IF \A i \in DOMAIN values : Hashable(values[i])
        THEN [raised |-> FALSE, counts |-> Counter(values)]
        ELSE [raised |-> TRUE, counts |-> EmptyDict]

\* 0-based position of the i-th entry after sorted(..., key=count, reverse=True)
RankByCount(keys, cnt, i) ==
    Cardinality({j \in DOMAIN keys : cnt[keys[j]] > cnt[keys[i]]})
    + Cardinality({j \in 1..(i - 1) : cnt[keys[j]] = cnt[keys[i]]})

\* print_distribution raises: count_values failed, or one of the top_n values
\* is not a str and cannot be formatted with ':40s'
print_distribution_raises(items, field, top_n) ==
    LET cv == count_values(items, field)
        keys == cv.counts.keys
    IN  \/ cv.raised
        \/ \E i \in DOMAIN keys :
               /\ RankByCount(keys, cv.counts.val, i) < top_n
               /\ ~IsStr(keys[i])

(***************************************************************************)
(* File I/O: save_json, save_csv (utils.py)                                *)
(***************************************************************************)
NoFile == <<"absent">>

RECURSIVE Digits(_)
\* str(n) for n >= 0
Digits(n) ==
    LET d == <<"0", "1", "2", "3", "4", "5", "6", "7", "8", "9">>
    IN  IF n < 10 THEN <<d[n + 1]>> ELSE Digits(n \div 10) \o <<d[(n % 10) + 1]>>

\* JSON documents, as json.dump writes and json.load reads them: null,
\* numbers, strings, arrays and objects (members in order, keys as written)
JNull == <<"jnull">>
JNumber(n) == <<"jnumber", n>>
JString(chars) == <<"jstring", chars>>
JArray(elements) == <<"jarray", elements>>
JObject(members) == <<"jobject", members>>

RECURSIVE json_dump(_)
\* the document of a value
json_dump(v) ==
    CASE v = None  -> JNull
      [] IsInt(v)  -> JNumber(v[2])
      [] IsStr(v)  -> JString(v[2])
      [] IsList(v) -> JArray(Evaluated([i \in DOMAIN v[2] |-> json_dump(v[2][i])]))
      [] IsDict(v) -> JObject(Evaluated([i \in DOMAIN v[2].keys |->
                                  <<v[2].keys[i],
                                    json_dump(v[2].val[v[2].keys[i]])>>]))

\* the document of a list of dicts (the record list, the cluster summary)
json_dump_records(props) ==
    JArray(Evaluated([i \in DOMAIN props |-> json_dump(Dict(props[i]))]))

\* the key json.dump writes for a dict key that is a str, an int or None
json_key(k) ==
    CASE k = None -> <<"n", "u", "l", "l">>
      [] IsInt(k) -> Digits(k[2])
      [] IsStr(k) -> k[2]

\* the document of {name: {value: count}}, the summary of count_values
json_dump_counts(summary) ==
    JObject([i \in DOMAIN summary.keys |->
        <<summary.keys[i],
          LET counts == summary.val[summary.keys[i]]
          IN  JObject([j \in DOMAIN counts.keys |->
                          <<json_key(counts.keys[j]),
                            JNumber(counts.val[counts.keys[j]])>>])>>])

RECURSIVE json_load(_)
\* the value of a document
json_load(doc) ==
    CASE doc = JNull         -> None
      [] doc[1] = "jnumber"  -> PInt(doc[2])
      [] doc[1] = "jstring"  -> Str(doc[2])
      [] doc[1] = "jarray"   ->
             List(Evaluated([i \in DOMAIN doc[2] |-> json_load(doc[2][i])]))
      [] doc[1] = "jobject"  ->
             \* members in order: a repeated key keeps the place of its
             \* first occurrence and the value of its last
             LET ks == Evaluated([i \in DOMAIN doc[2] |-> doc[2][i][1]])
                 vs == Evaluated([i \in DOMAIN doc[2] |-> json_load(doc[2][i][2])])
                 last(k) == CHOOSE i \in DOMAIN ks :
                                ks[i] = k /\ \A j \in (i + 1)..Len(ks) : ks[j] # k
             IN  Dict([keys |-> FirstOccurrences(ks),
                       val  |-> [k \in Range(ks) |-> vs[last(k)]]])

\* the file that json.dump(data, f, indent=2) writes, doc the document of data
JsonFile(doc) == <<"json", doc>>

save_json(fs, doc, filename) == [fs EXCEPT ![filename] = JsonFile(doc)]

\* [raised |-> open() raised FileNotFoundError, data |-> json.load(f)]
load_json(fs, filename) ==
    IF fs[filename] = NoFile THEN [raised |-> TRUE, data |-> None]
    ELSE [raised |-> FALSE, data |-> json_load(fs[filename][2])]

\* a loaded list of dicts as a record list
records_of(data) == Evaluated([i \in DOMAIN data[2] |-> data[2][i][2]])

\* the text csv.writer puts in a cell
CsvCell(v) ==
    CASE v = None -> EmptyStr
      [] IsStr(v) -> v
      [] IsInt(v) -> Str(Digits(v[2]))
      [] OTHER    -> <<"repr", v>>

CsvRow(fieldnames, row) ==
    [j \in DOMAIN fieldnames |-> CsvCell(DictGet(row, fieldnames[j], EmptyStr))]

\* DictWriter raises ValueError for a row with a key outside fieldnames
HasExtraKey(fieldnames, row) ==
    \E k \in Range(row.keys) : k \notin Range(fieldnames)

\* a variant whose writer leaves out the keys outside fieldnames
save_csv_IgnoreExtras(fs, data, filename) ==
    IF data = <<>> THEN [files |-> fs, raised |-> FALSE]
    ELSE [files |-> [fs EXCEPT ![filename] =
                        <<"csv", data[1].keys,
                          [i \in DOMAIN data |-> CsvRow(data[1].keys, data[i])]>>],
          raised |-> FALSE]

\* [files |-> the directory afterwards, raised |-> a ValueError left save_csv]
save_csv(fs, data, filename) ==
    IF data = <<>> THEN [files |-> fs, raised |-> FALSE]
    ELSE LET fieldnames == data[1].keys
             bad == {i \in DOMAIN data : HasExtraKey(fieldnames, data[i])}
             written == IF bad = {} THEN Len(data)
                        ELSE (CHOOSE i \in bad : \A j \in bad : i <= j) - 1
         IN  [files |-> [fs EXCEPT ![filename] =
                            <<"csv", fieldnames,
                              [i \in 1..written |-> CsvRow(fieldnames, data[i])]>>],
              raised |-> bad # {}]

(***************************************************************************)
(* generate_cluster_summary (utils.py)                                     *)
(***************************************************************************)
MaxCompaniesListed == 15
MaxExamples == 3
ExampleNameLength == 35

\* characters in code point order
CodePoints ==
    <<" ", "%", ",", ".", "0", "1", "2", "3", "4", "5", "6", "7", "8", "9",
      ":", "A", "B", "U", "a", "b", "c", "k", "l", "n", "o", "p", "t", "w",
      "x", "|">>

Code(ch) == CHOOSE i \in DOMAIN CodePoints : CodePoints[i] = ch

RECURSIVE CharsLess(_, _)
\* a < b for two str, by code points
CharsLess(a, b) ==
    IF b = <<>> THEN FALSE
    ELSE IF a = <<>> THEN TRUE
    ELSE IF Head(a) = Head(b) THEN CharsLess(Tail(a), Tail(b))
    ELSE Code(Head(a)) < Code(Head(b))

RECURSIVE SortedStrs(_)
\* sorted(set of str)
SortedStrs(S) ==
    IF S = {} THEN <<>>
    ELSE LET m == CHOOSE x \in S : \A y \in S \ {x} : CharsLess(x[2], y[2])
         IN  <<m>> \o SortedStrs(S \ {m})

\* f"{count / total * 100:.1f}%" (no count/total below the model's bounds
\* falls on a rounding tie)
Percentage(count, total) ==
    LET tenths == (2000 * count + total) \div (2 * total)
    IN  Str(Digits(tenths \div 10) \o <<".">> \o Digits(tenths % 10) \o <<"%">>)

Take(seq, n) == SubSeq(seq, 1, Min(n, Len(seq)))

\* a variant that lists every member of the cluster as an example
cluster_entry_AllExamples(props, cluster_field, cluster_name) ==
    LET cluster_proposals ==
            SelectSeq(props,
                      LAMBDA p : DictGet(p, cluster_field, Unknown) = cluster_name)
        companies == {cluster_proposals[i].val["company"] :
                          i \in DOMAIN cluster_proposals}
        listed == Take(SortedStrs(companies), MaxCompaniesListed)
    IN  DictOf(<<
            <<"cluster", cluster_name>>,
            <<"count", PInt(Len(cluster_proposals))>>,
            <<"percentage", Percentage(Len(cluster_proposals), Len(props))>>,
            <<"num_companies", PInt(Cardinality(companies))>>,
            <<"companies",
              Str(Concat([i \in DOMAIN listed |-> listed[i][2]], CommaSpace))>>,
            <<"example_proposals",
              Str(Concat([i \in DOMAIN cluster_proposals |->
                             cluster_proposals[i].val["company"][2] \o <<":", " ">>
                             \o Take(cluster_proposals[i].val["proposal_name"][2],
                                     ExampleNameLength)],
                         <<" ", "|", " ">>))>> >>)

cluster_entry(props, cluster_field, cluster_name) ==
    LET cluster_proposals ==
            SelectSeq(props,
                      LAMBDA p : DictGet(p, cluster_field, Unknown) = cluster_name)
        companies == {cluster_proposals[i].val["company"] :
                          i \in DOMAIN cluster_proposals}
        listed == Take(SortedStrs(companies), MaxCompaniesListed)
        shown == Take(cluster_proposals, MaxExamples)
    IN  DictOf(<<
            <<"cluster", cluster_name>>,
            <<"count", PInt(Len(cluster_proposals))>>,
            <<"percentage", Percentage(Len(cluster_proposals), Len(props))>>,
            <<"num_companies", PInt(Cardinality(companies))>>,
            <<"companies",
              Str(Concat([i \in DOMAIN listed |-> listed[i][2]], CommaSpace))>>,
            <<"example_proposals",
              Str(Concat([i \in DOMAIN shown |->
                             shown[i].val["company"][2] \o <<":", " ">>
                             \o Take(shown[i].val["proposal_name"][2],
                                     ExampleNameLength)],
                         <<" ", "|", " ">>))>> >>)

\* one entry per distinct whole value of cluster_field, largest cluster first
generate_cluster_summary(props, cluster_field) ==
    LET names == [i \in DOMAIN props |->
                     DictGet(props[i], cluster_field, Unknown)]
        sizes == Counter(names)
        keys == sizes.keys
        at(r) == CHOOSE i \in DOMAIN keys : RankByCount(keys, sizes.val, i) = r - 1
    IN  [r \in DOMAIN keys |-> cluster_entry(props, cluster_field, keys[at(r)])]

(***************************************************************************)
(* Inputs: record lists a stage can be called with                         *)
(***************************************************************************)
RawKeys ==
    <<"company", "proposal_name", "current_state", "problems", "impact",
      "target_persona", "existing_tooling", "functionality",
      "problem_solving", "risk_assessment">>

LabelA == Str(<<"A">>)
LabelB == Str(<<"B">>)
PriorLabel == Str(<<"a", "b">>)

\* a record as extract_proposals_from_companies builds it
RawRecord(i) ==
    SetFields(EmptyDict, RawKeys,
              [k \in Range(RawKeys) |->
                  CASE k = "company" -> Str(<<"c", Digits(((i - 1) % 2) + 1)[1]>>)
                    [] k = "proposal_name" -> Str(<<"p">> \o Digits(i))
                    [] OTHER -> Str(<<"t">>)])

StageOrder == <<Phase2, Phase3, Phase4>>
StageNumber(stage) == CHOOSE i \in DOMAIN StageOrder : StageOrder[i] = stage

RECURSIVE WithStageLabels(_, _)
\* the record after the first `upto` stages labelled it
WithStageLabels(rec, upto) ==
    IF upto = 0 THEN rec
    ELSE LET fields == StageFields(StageOrder[upto])
         IN  SetFields(WithStageLabels(rec, upto - 1), fields,
                       [f \in Range(fields) |-> PriorLabel])

\* raw records, records labelled by the earlier stages, or the stage's own
\* snapshot of an earlier run
InputLists(stage) ==
    {[i \in 1..n |-> WithStageLabels(RawRecord(i), upto)] :
        n \in 0..MaxRecords,
        upto \in {0, StageNumber(stage) - 1, StageNumber(stage)}}

(***************************************************************************)
(* extract_proposals_from_companies (utils.py)                             *)
(***************************************************************************)
MaxCompanies == 3
MaxEntries == 2
\* the limits of the source (2000, 1500 and 1000 characters) are scaled
\* down by this factor; a long text of the model exceeds every limit
TextLimitScale == 500
LongTextLength == 5

text_limits ==
    [current_state    |-> 2000 \div TextLimitScale,
     problems         |-> 1500 \div TextLimitScale,
     impact           |-> 1500 \div TextLimitScale,
     existing_tooling |-> 1000 \div TextLimitScale,
     functionality    |-> 2000 \div TextLimitScale,
     problem_solving  |-> 1000 \div TextLimitScale,
     risk_assessment  |-> 1000 \div TextLimitScale]

\* the key of the proposals file a field of the record is taken from
SourceKey(field) ==
    CASE field = "proposal_name"    -> "Proposal Name"
      [] field = "current_state"    -> "Current State Understanding"
      [] field = "problems"         -> "Problems Identified"
      [] field = "impact"           -> "Impact Analysis"
      [] field = "target_persona"   -> "Target Persona"
      [] field = "existing_tooling" -> "Existing Tooling"
      [] field = "functionality"    -> "Functionality"
      [] field = "problem_solving"  -> "Problem Solving"
      [] field = "risk_assessment"  -> "Risk Assessment"

\* fields taken from the 'Proposed System' object
SystemFields == {"functionality", "problem_solving", "risk_assessment"}

\* a variant that keeps the whole value
slice_to_Whole(v, limit) ==
    IF IsStr(v) \/ IsList(v) THEN [raised |-> FALSE, val |-> v]
    ELSE [raised |-> TRUE, val |-> None]

\* v[:limit]; [raised |-> a TypeError (v is no str and no list), val |-> result]
slice_to(v, limit) ==
    IF IsStr(v) THEN [raised |-> FALSE, val |-> Str(Take(v[2], limit))]
    ELSE IF IsList(v) THEN [raised |-> FALSE, val |-> List(Take(v[2], limit))]
    ELSE [raised |-> TRUE, val |-> None]

\* the value of one field of proposal_entry, proposal being a dict
field_value(proposal, field) ==
    LET proposed_system == DictGet(proposal[2], "Proposed System", Dict(EmptyDict))
    IN  IF field \in SystemFields
        THEN IF IsDict(proposed_system)
             THEN slice_to(DictGet(proposed_system[2], SourceKey(field), EmptyStr),
                           text_limits[field])
             ELSE [raised |-> FALSE, val |-> EmptyStr]
        ELSE IF field \in DOMAIN text_limits
        THEN slice_to(DictGet(proposal[2], SourceKey(field), EmptyStr),
                      text_limits[field])
        ELSE [raised |-> FALSE,
              val |-> DictGet(proposal[2], SourceKey(field), EmptyStr)]

\* the body of the loop over proposals, up to the append: [raised |-> an
\* AttributeError (proposal has no get) or a TypeError, entry |-> the record]
proposal_entry(company_name, proposal) ==
    IF ~IsDict(proposal) THEN [raised |-> TRUE, entry |-> EmptyDict]
    ELSE Apply(LAMBDA fields :
                   [raised |-> \E i \in DOMAIN fields : fields[i].raised,
                    entry  |-> [keys |-> RawKeys,
                                val  |-> [k \in Range(RawKeys) |->
                                             fields[CHOOSE i \in DOMAIN RawKeys :
                                                        RawKeys[i] = k].val]]],
               Evaluated([i \in DOMAIN RawKeys |->
                   IF RawKeys[i] = "company"
                   THEN [raised |-> FALSE, val |-> company_name]
                   ELSE field_value(proposal, RawKeys[i])]))

NoProposalsFile == <<"absent">>
BrokenFile == <<"broken">>

\* what `for proposal in proposals` iterates over: the elements of a list,
\* the characters of a str, the keys (str) of a dict; None and a number are
\* not iterable
iterated(iterable) ==
    IF IsList(iterable) THEN [raised |-> FALSE, elems |-> iterable[2]]
    ELSE IF IsStr(iterable)
    THEN [raised |-> FALSE,
          elems |-> [i \in DOMAIN iterable[2] |-> Str(<<iterable[2][i]>>)]]
    ELSE IF IsDict(iterable)
    THEN [raised |-> FALSE,
          elems |-> [i \in DOMAIN iterable[2].keys |-> EmptyStr]]
    ELSE [raised |-> TRUE, elems |-> <<>>]

\* the loop over proposals, built[i] the outcome of its i-th pass: the
\* records before the first pass that raised are appended
appended_entries(built, not_iterable) ==
    LET bad == {i \in DOMAIN built : built[i].raised}
        appended == IF bad = {} THEN Len(built)
                    ELSE (CHOOSE i \in bad : \A j \in bad : i <= j) - 1
    IN  [entries |-> Evaluated([i \in 1..appended |-> built[i].entry]),
         raised  |-> not_iterable \/ bad # {}]

\* the try block after json.load gave data
company_entries(company_name, data) ==
    IF ~IsDict(data) THEN [entries |-> <<>>, raised |-> TRUE]
    ELSE LET it == iterated(DictGet(data[2], "proposals", List(<<>>)))
         IN  Apply(LAMBDA built : appended_entries(built, it.raised),
                   Evaluated([i \in DOMAIN it.elems |->
                                 proposal_entry(company_name, it.elems[i])]))

\* the try block for one proposals file: [entries |-> the records appended
\* to all_proposals, raised |-> an exception reached the except clause]
extract_company(company_name, file) ==
    IF file = BrokenFile THEN [entries |-> <<>>, raised |-> TRUE]
    ELSE Apply(LAMBDA data : company_entries(company_name, data),
               json_load(file[2]))

\* [proposals |-> all_proposals, errors |-> the companies whose error was
\* printed, in order]
extract_proposals_from_companies(dir) ==
    LET proposal_files ==
            SortedStrs({c \in DOMAIN dir : dir[c] # NoProposalsFile})
    IN  Apply(LAMBDA per :
                  [proposals |-> FlattenSeq([i \in DOMAIN per |-> per[i].entries]),
                   errors    |-> SelectSeq(proposal_files,
                                     LAMBDA c : \E i \in DOMAIN per :
                                         per[i].raised /\ proposal_files[i] = c)],
              Evaluated([i \in DOMAIN proposal_files |->
                  extract_company(proposal_files[i], dir[proposal_files[i]])]))

\* data directories: every company directory holds no proposals file, an
\* unparseable one, or a JSON document
CompanyNames == {Str(<<"c">> \o Digits(i)) : i \in 1..MaxCompanies}
Text(n) == Str([i \in 1..n |-> "x"])

FullEntry(name, text) ==
    Dict(DictOf(<<
        <<"Proposal Name", name>>,
        <<"Current State Understanding", text>>,
        <<"Problems Identified", text>>,
        <<"Impact Analysis", text>>,
        <<"Target Persona", text>>,
        <<"Existing Tooling", text>>,
        <<"Proposed System",
          Dict(DictOf(<< <<"Functionality", text>>,
                         <<"Problem Solving", text>>,
                         <<"Risk Assessment", text>> >>))>> >>))

\* the i-th entry of a file, of the expected shape and with short texts
PlainEntry(i) == FullEntry(Str(<<"p">> \o Digits(i)), Text(1))

\* other entries: long texts, a bare string, a null narrative, a flat
\* 'Proposed System' with the other keys absent
OtherEntries(i) ==
    {FullEntry(Str(<<"p">> \o Digits(i)), Text(LongTextLength)),
     Str(<<"t">>),
     Dict(DictSet(PlainEntry(i)[2], "Problems Identified", None)),
     Dict(DictOf(<< <<"Proposal Name", Str(<<"p">> \o Digits(i))>>,
                    <<"Proposed System", Text(1)>> >>))}

\* lists of entries with at most one entry that is not the plain one
ProposalLists ==
    UNION {{[i \in 1..n |-> PlainEntry(i)]}
           \cup UNION {{[i \in 1..n |-> IF i = k THEN e ELSE PlainEntry(i)] :
                            e \in OtherEntries(k)} : k \in 1..n} :
           n \in 0..MaxEntries}

ProposalsFiles ==
    {BrokenFile,
     JsonFile(json_dump(List(<<>>))),
     JsonFile(json_dump(Dict(EmptyDict)))}
    \cup {JsonFile(json_dump(Dict(DictOf(<< <<"proposals", List(l)>> >>)))) :
             l \in ProposalLists}

CompanyDirs == [CompanyNames -> {NoProposalsFile} \cup ProposalsFiles]

(***************************************************************************)
(* Replies the model may give                                              *)
(***************************************************************************)
\* keys of a classification object other than the index
ClassifKeys(stage) ==
    CASE stage = Phase2 -> <<"type">>
      [] stage = Phase3 -> SubSeq(ArchFields, 1, 7) \o <<"confidence">>
      [] stage = Phase4 -> ImplFields

\* keys the model is asked to answer with an array
ArrayKeys == {"input_modalities"}

FullObject(stage, i, label) ==
    LET keys == ClassifKeys(stage)
    IN  SetFields(DictSet(EmptyDict, index_key(stage), PInt(i)), keys,
                  [k \in Range(keys) |->
                      IF k \in ArrayKeys THEN List(<<label>>) ELSE label])

Without(d, k) ==
    [keys |-> SelectSeq(d.keys, LAMBDA x : x # k),
     val  |-> [x \in (DOMAIN d.val) \ {k} |-> d.val[x]]]

\* the text of a JSON array of objects, wrapped in prose
ArrayText(objs) ==
    <<W, LB>>
    \o FlattenSeq([i \in DOMAIN objs |->
                      IF i = 1 THEN <<Dict(objs[i])>> ELSE <<COMMA, Dict(objs[i])>>])
    \o <<RB, W>>

MissingChoices(stage) ==
    CASE stage = Phase2 -> {"type"}
      [] stage = Phase3 -> {"architecture_pattern", "knowledge_representation",
                            "input_modalities", "confidence"}
      [] stage = Phase4 -> {"data_complexity", "rerepresentation_type"}

\* <<key, value>>: a value of another shape than a plain label
OddValues(stage) ==
    CASE stage = Phase2 -> {<<"type", List(<<LabelA, LabelB>>)>>, <<"type", None>>}
      [] stage = Phase3 ->
            {<<"knowledge_representation", List(<<LabelA, LabelB>>)>>,
             <<"knowledge_representation", List(<<LabelA, None>>)>>,
             <<"input_modalities", List(<<LabelA, LabelB>>)>>,
             <<"input_modalities", Str(<<"t", "x">>)>>,
             <<"input_modalities", None>>,
             <<"confidence", None>>,
             <<"architecture_pattern", None>>}
      [] stage = Phase4 ->
            {<<"rerepresentation_type", List(<<LabelA, LabelB>>)>>,
             <<"data_complexity", List(<<LabelA, LabelB>>)>>,
             <<"data_complexity", None>>}

\* lists of classification objects for a batch of len records
ObjectLists(stage, len) ==
    LET full(i, label) == FullObject(stage, i, label)
    IN  {[i \in 1..len |-> full(i, LabelA)]}
        \cup {<<full(1, LabelA)>>, <<full(len, LabelB)>>}
        \cup {<<full(1, LabelA), full(len + 1, LabelB)>>,
              <<full(0, LabelB), full(1, LabelA)>>}
        \cup {<<full(1, LabelA), Without(full(len, LabelB), k)>> :
                  k \in MissingChoices(stage) \cup {index_key(stage)}}
        \cup {<<DictSet(full(1, LabelA), index_key(stage), LabelA)>>}
        \cup {<<DictSet(full(1, LabelA), kv[1], kv[2])>> : kv \in OddValues(stage)}

\* replies that hold no JSON array the extraction can parse
GarbledReplies(stage) ==
    {<<W>>,                                                 \* only prose
     <<W, LB, Dict(FullObject(stage, 1, LabelA))>>,         \* cut off
     <<LB, Dict(FullObject(stage, 1, LabelA)), RB, W, LB, PInt(1), RB>>,
     <<LC, Member(index_key(stage), PInt(1)), RC>>}         \* a single object

ClassifyReplies(stage, len) ==
    GarbledReplies(stage)
    \cup {<<LB, RB>>,                                       \* empty array
          <<LB, PInt(1), RB>>}                              \* array of numbers
    \cup {ArrayText(objs) : objs \in ObjectLists(stage, len)}

DiscoveryReplies ==
    {<<W>>,
     <<LB, RB>>,
     <<W, LB, LabelA, COMMA, LabelB, RB>>,
     <<LB, LabelA, RB, W>>,
     <<LC, Member("clusters", List(<<LabelA, LabelB>>)), RC>>}

DiscoveryTemplate == "business_clustering_discovery.j2"

ClassifyTemplate(stage) ==
    CASE stage = Phase2 -> "business_clustering_classify.j2"
      [] stage = Phase3 -> "architecture_classify.j2"
      [] stage = Phase4 -> "implementation_classify.j2"

TemplateStage(template) == CHOOSE st \in Stages : ClassifyTemplate(st) = template

\* render_prompt(template, proposals=..., system_types=...)
render_prompt(template, props, types) ==
    [template |-> template, proposals |-> props, system_types |-> types]

PlainPrompt == render_prompt("", <<>>, None)

(***************************************************************************)
(* call_llm (utils.py): one request per attempt, retry only on status 500  *)
(***************************************************************************)
DefaultMaxRetries == 3
RetryableStatus == 500
StatusCodes == {400, 401, 429, 500}

APIStatusError(code) == <<"APIStatusError", code>>
APIConnectionError == <<"APIConnectionError", 0>>
ApiErrors == {APIStatusError(c) : c \in StatusCodes} \cup {APIConnectionError}

\* the branch of the except clauses that sleeps and retries
\* variants: without the attempt bound, without the status test
ShouldRetry_NoCap(err, att, cap) ==
    err[1] = "APIStatusError" /\ err[2] = RetryableStatus

ShouldRetry_AnyStatus(err, att, cap) ==
    err[1] = "APIStatusError" /\ att < cap - 1

ShouldRetry(err, att, cap) ==
    err[1] = "APIStatusError" /\ err[2] = RetryableStatus /\ att < cap - 1

\* a variant that sleeps 2 ** (attempt + 1)
wait_time_Shifted(att) == Pow2(att + 1)

wait_time(att) == Pow2(att)

\* what the running call did so far
IsRequest(ev) == ev[1] = "request"
IsSleep(ev) == ev[1] = "sleep"
Requests(trace) == Cardinality({i \in DOMAIN trace : IsRequest(trace[i])})
Answers(trace) ==
    LET reqs == SelectSeq(trace, IsRequest) IN [i \in DOMAIN reqs |-> reqs[i][2]]
Waits(trace) ==
    LET sleeps == SelectSeq(trace, IsSleep) IN [i \in DOMAIN sleeps |-> sleeps[i][2]]

\* entering call_llm(prompt, max_retries): range(max_retries) may be empty
CallEnter(p, cap) ==
    /\ prompt' = p
    /\ max_retries' = cap
    /\ attempt' = 0
    /\ call_trace' = <<>>
    /\ call_pc' = IF cap = 0 THEN "returned" ELSE "request"
    /\ call_result' = None

\* a second run of a stage is given, for each of its calls, what the call
\* of the first run gave
Replaying == first_run.replay
Replayed == IF pc = "discover" THEN first_run.discovery
            ELSE first_run.log[batch_num]

\* in a run of main: replies without data (prose only; for the discovery
\* also an empty array) and a complete one (the types A and B; record 1
\* labelled A, every other record B)
MainReplies ==
    IF prompt.template = DiscoveryTemplate
    THEN {<<W>>, <<W, LB, RB>>, <<W, LB, LabelA, COMMA, LabelB, RB>>}
    ELSE {<<W>>,
          ArrayText([i \in DOMAIN prompt.proposals |->
                        FullObject(TemplateStage(prompt.template), i,
                                   IF i = 1 THEN LabelA ELSE LabelB)])}

\* in a run of main: a refused request and a server error
MainErrors == {APIStatusError(401), APIStatusError(RetryableStatus)}

\* the texts the API may answer the current prompt with
ReplyTexts ==
    IF Replaying THEN {Replayed[2] : x \in {r \in {Replayed} : r[1] = "ok"}}
    ELSE IF main_pc # "none" THEN MainReplies
    ELSE IF prompt.template = "" THEN {<<W>>, <<LB, RB>>}
    ELSE IF prompt.template = DiscoveryTemplate THEN DiscoveryReplies
    ELSE ClassifyReplies(TemplateStage(prompt.template), Len(prompt.proposals))

\* the errors the request may raise
ReplyErrors ==
    IF Replaying THEN {Replayed[2] : x \in {r \in {Replayed} : r[1] = "raise"}}
    ELSE IF main_pc # "none" THEN MainErrors
    ELSE ApiErrors

\* client.messages.create(...) answers with a text or raises
LlmRequest ==
    /\ call_pc = "request"
    /\ \/ \E text \in ReplyTexts :
              /\ call_trace' = Append(call_trace, <<"request", <<"ok", text>>>>)
              /\ call_pc' = "returned"
              /\ call_result' = <<"ok", text>>
       \/ \E err \in ReplyErrors :
              /\ call_trace' = Append(call_trace, <<"request", err>>)
              /\ IF ShouldRetry(err, attempt, max_retries)
                 THEN /\ call_pc' = "sleep"
                      /\ call_result' = None
                 ELSE /\ call_pc' = "raised"
                      /\ call_result' = <<"raise", err>>
    /\ UNCHANGED <<entry, pc, prompt, max_retries, attempt>>
    /\ UNCHANGED stage_vars
    /\ UNCHANGED batch_caller_vars
    /\ UNCHANGED pipeline_vars

\* time.sleep(wait_time); continue
LlmSleep ==
    /\ call_pc = "sleep"
    /\ call_trace' = Append(call_trace, <<"sleep", wait_time(attempt)>>)
    /\ attempt' = attempt + 1
    /\ call_pc' = "request"
    /\ UNCHANGED <<entry, pc, prompt, max_retries, call_result>>
    /\ UNCHANGED stage_vars
    /\ UNCHANGED batch_caller_vars
    /\ UNCHANGED pipeline_vars

(***************************************************************************)
(* call_llm_batch (utils.py): prompts in sequence, a failure gives None    *)
(***************************************************************************)
InitCall ==
    /\ entry = "call_llm_batch"
    /\ pc = "loop"
    /\ prompts \in {[i \in 1..n |-> PlainPrompt] : n \in 0..MaxPrompts}
    /\ responses = <<>>
    /\ max_retries \in 0..MaxRetriesBound
    /\ attempt = 0
    /\ call_trace = <<>>
    /\ call_pc = "idle"
    /\ call_result = None
    /\ prompt = PlainPrompt
    /\ proposals = <<>>
    /\ proposals0 = <<>>
    /\ batch_num = 0
    /\ system_types = None
    /\ files = [f \in {} |-> NoFile]
    /\ batch_log = <<>>
    /\ discovery_log = None
    /\ CalledAlone

\* for i, prompt in enumerate(prompts): response = call_llm(prompt, ...)
BatchCallerSend ==
    /\ entry = "call_llm_batch"
    /\ pc = "loop"
    /\ prompts # <<>>
    /\ CallEnter(Head(prompts), max_retries)
    /\ prompts' = Tail(prompts)
    /\ pc' = "in_call"
    /\ UNCHANGED <<entry, responses>>
    /\ UNCHANGED stage_vars
    /\ UNCHANGED pipeline_vars

\* responses.append(response), or responses.append(None) in the except clause
BatchCallerCollect ==
    /\ entry = "call_llm_batch"
    /\ pc = "in_call"
    /\ call_pc \in {"returned", "raised"}
    /\ responses' = Append(responses,
                           IF call_pc = "returned" /\ call_result[1] = "ok"
                           THEN call_result ELSE None)
    /\ pc' = "loop"
    /\ call_pc' = "idle"
    /\ UNCHANGED <<entry, prompt, prompts, max_retries, attempt,
                   call_trace, call_result>>
    /\ UNCHANGED stage_vars
    /\ UNCHANGED pipeline_vars

\* return responses
BatchCallerReturn ==
    /\ entry = "call_llm_batch"
    /\ pc = "loop"
    /\ prompts = <<>>
    /\ pc' = "returned"
    /\ UNCHANGED <<entry, prompt, prompts, responses>>
    /\ UNCHANGED call_vars
    /\ UNCHANGED stage_vars
    /\ UNCHANGED pipeline_vars

(***************************************************************************)
(* The classification stages (analyze.py)                                  *)
(***************************************************************************)
batch_size(stage) == BatchSize

SnapshotJson(stage) ==
    CASE stage = Phase2 -> "proposals_with_business.json"
      [] stage = Phase3 -> "proposals_complete.json"
      [] stage = Phase4 -> "proposals_with_implementation.json"

SnapshotCsv(stage) ==
    CASE stage = Phase2 -> "proposals_with_business.csv"
      [] stage = Phase3 -> "proposals_complete.csv"
      [] stage = Phase4 -> "proposals_with_implementation.csv"

SummaryJson(stage) ==
    CASE stage = Phase2 -> "business_clusters_summary.json"
      [] stage = Phase3 -> "architecture_summary.json"
      [] stage = Phase4 -> "implementation_summary.json"

BusinessSummaryCsv == "business_clusters_summary.csv"
RawJson == "raw_proposals.json"
RawCsv == "raw_proposals.csv"
AnalysisSummaryJson == "analysis_summary.json"

FileNames ==
    {SnapshotJson(st) : st \in Stages} \cup {SnapshotCsv(st) : st \in Stages}
    \cup {SummaryJson(st) : st \in Stages} \cup {BusinessSummaryCsv}
    \cup {RawJson, RawCsv, AnalysisSummaryJson}

\* fields whose distribution the stage prints and summarises
ReportedFields(stage) ==
    CASE stage = Phase2 -> BusinessFields
      [] stage = Phase3 -> SubSeq(ArchFields, 1, 7)
      [] stage = Phase4 -> ImplFields

ReportTopN(stage) == IF stage = Phase2 THEN BusinessTopN ELSE DefaultTopN

InitStage ==
    /\ entry \in Stages
    /\ pc = "start"
    /\ proposals \in InputLists(entry)
    /\ proposals0 = proposals
    /\ batch_num = 0
    /\ system_types = None
    /\ prompt = PlainPrompt
    /\ files = [f \in FileNames |-> NoFile]
    /\ batch_log = <<>>
    /\ prompts = <<>>
    /\ responses = <<>>
    /\ max_retries = DefaultMaxRetries
    /\ attempt = 0
    /\ call_trace = <<>>
    /\ call_pc = "idle"
    /\ call_result = None
    /\ discovery_log = None
    /\ CalledAlone

\* the records of batch b of the list props
BatchOf(stage, props, b) == batch_items(props, batch_size(stage))[b]

\* a variant that indexes the whole list with the position in the batch
WithBatch_FromStart(stage, props, b, batch) ==
    [i \in DOMAIN props |-> IF i <= Len(batch) THEN batch[i] ELSE props[i]]

\* the list props with the records of batch b replaced (the batch holds the
\* very dicts of the list, so a change of one is a change of the other)
WithBatch(stage, props, b, batch) ==
    [i \in DOMAIN props |->
        IF BatchLo(b, batch_size(stage)) <= i
           /\ i <= BatchHi(b, batch_size(stage), Len(props))
        THEN batch[i - BatchLo(b, batch_size(stage)) + 1]
        ELSE props[i]]

\* top of the batch loop for batch b: render the prompt and call call_llm,
\* or leave the loop when no batch is left
EnterBatch(stage, props, types, b) ==
    IF b <= NumBatches(Len(props), batch_size(stage))
    THEN /\ batch_num' = b
         /\ pc' = "batch"
         /\ CallEnter(render_prompt(ClassifyTemplate(stage),
                                    BatchOf(stage, props, b),
                                    IF stage = Phase2 THEN types ELSE None),
                      DefaultMaxRetries)
    ELSE /\ batch_num' = b
         /\ pc' = "finish"
         /\ call_pc' = "idle"
         /\ UNCHANGED <<prompt, max_retries, attempt, call_trace,
                        call_result>>

\* phase2: the discovery call over the first records
Phase2Discover ==
    /\ entry = Phase2
    /\ pc = "start"
    /\ pc' = "discover"
    /\ CallEnter(render_prompt(DiscoveryTemplate,
                               Take(proposals, DiscoverySample), None),
                 DefaultMaxRetries)
    /\ UNCHANGED <<entry, prompts, responses>>
    /\ UNCHANGED stage_vars
    /\ UNCHANGED pipeline_vars

\* phase2: the discovery reply is parsed; no vocabulary ends the stage
Phase2Discovered ==
    /\ entry = Phase2
    /\ pc = "discover"
    /\ call_pc = "returned"
    /\ LET types == extract_json_from_response(call_result[2])
       IN  /\ system_types' = types
           /\ IF ~Truthy(types)
              THEN /\ pc' = "returned"
                   /\ call_pc' = "idle"
                   /\ UNCHANGED <<batch_num, prompt, max_retries, attempt,
                                  call_trace, call_result>>
              ELSE EnterBatch(Phase2, proposals, types, 1)
    /\ UNCHANGED <<entry, proposals, proposals0, files, batch_log, prompts,
                   responses>>
    /\ discovery_log' = call_result
    /\ UNCHANGED pipeline_vars

\* a variant in which the discovery call sits in a try block as well
Phase2DiscoveryRaised_Caught ==
    /\ entry = Phase2
    /\ pc = "discover"
    /\ call_pc = "raised"
    /\ pc' = "returned"
    /\ call_pc' = "idle"
    /\ UNCHANGED <<entry, prompt, prompts, responses, max_retries, attempt,
                   call_trace, call_result>>
    /\ discovery_log' = call_result
    /\ UNCHANGED <<proposals, proposals0, batch_num, system_types, files,
                   batch_log>>
    /\ UNCHANGED pipeline_vars

\* phase2: an error of the discovery call leaves the stage function
Phase2DiscoveryRaised ==
    /\ entry = Phase2
    /\ pc = "discover"
    /\ call_pc = "raised"
    /\ pc' = "raised"
    /\ call_pc' = "idle"
    /\ UNCHANGED <<entry, prompt, prompts, responses, max_retries, attempt,
                   call_trace, call_result>>
    /\ discovery_log' = call_result
    /\ UNCHANGED <<proposals, proposals0, batch_num, system_types, files,
                   batch_log>>
    /\ UNCHANGED pipeline_vars

\* a variant that leaves records without business_use_case as they are
ensure_business_use_case_Skipped(props) == props

\* phase3, "Ensure business_use_case field exists": a record without the
\* key gets 'Unknown'
ensure_business_use_case(props) ==
    [i \in DOMAIN props |->
        IF HasKey(props[i], "business_use_case")
        THEN props[i]
        ELSE DictSet(props[i], "business_use_case", Unknown)]

\* phase3: business_use_case is ensured, then the batch loop starts
Phase3Start ==
    /\ entry = Phase3
    /\ pc = "start"
    /\ proposals' = ensure_business_use_case(proposals)
    /\ EnterBatch(Phase3, proposals', None, 1)
    /\ UNCHANGED <<entry, proposals0, system_types, files, batch_log, prompts,
                   responses>>
    /\ UNCHANGED discovery_log
    /\ UNCHANGED pipeline_vars

\* phase4: the batch loop starts
Phase4Start ==
    /\ entry = Phase4
    /\ pc = "start"
    /\ EnterBatch(Phase4, proposals, None, 1)
    /\ UNCHANGED <<entry, proposals, proposals0, system_types, files, batch_log,
                   prompts, responses>>
    /\ UNCHANGED discovery_log
    /\ UNCHANGED pipeline_vars

\* the try block after call_llm returned: parse, merge or default
BatchMerged ==
    /\ entry \in Stages
    /\ pc = "batch"
    /\ call_pc = "returned"
    /\ proposals' = WithBatch(entry, proposals, batch_num,
                        merge_response(entry,
                                       BatchOf(entry, proposals, batch_num),
                                       call_result[2]))
    /\ batch_log' = Append(batch_log, call_result)
    /\ EnterBatch(entry, proposals', system_types, batch_num + 1)
    /\ UNCHANGED <<entry, proposals0, system_types, files, prompts, responses>>
    /\ UNCHANGED discovery_log
    /\ UNCHANGED pipeline_vars

\* a variant that sends the failed batch once more
BatchFailed_Redispatch ==
    /\ entry \in Stages
    /\ pc = "batch"
    /\ call_pc = "raised"
    /\ batch_log' = Append(batch_log, call_result)
    /\ EnterBatch(entry, proposals, system_types, batch_num)
    /\ UNCHANGED <<entry, proposals, proposals0, system_types, files, prompts,
                   responses>>
    /\ UNCHANGED discovery_log
    /\ UNCHANGED pipeline_vars

\* the except clause after call_llm raised: the batch gets the defaults
BatchFailed ==
    /\ entry \in Stages
    /\ pc = "batch"
    /\ call_pc = "raised"
    /\ proposals' = WithBatch(entry, proposals, batch_num,
                        add_default_fields(entry,
                                           BatchOf(entry, proposals, batch_num)))
    /\ batch_log' = Append(batch_log, call_result)
    /\ EnterBatch(entry, proposals', system_types, batch_num + 1)
    /\ UNCHANGED <<entry, proposals0, system_types, files, prompts, responses>>
    /\ UNCHANGED discovery_log
    /\ UNCHANGED pipeline_vars

\* the summary object of the architecture and implementation stages
count_summary(stage, props) ==
    SetFields(EmptyDict, ReportedFields(stage),
              [f \in Range(ReportedFields(stage)) |-> count_values(props, f).counts])

\* a variant that writes the CSV snapshot in the place of the JSON snapshot
save_snapshot_CsvFirst(stage, props, fs) ==
    IF \E i \in DOMAIN ReportedFields(stage) :
           print_distribution_raises(props, ReportedFields(stage)[i],
                                     ReportTopN(stage))
    THEN [files |-> fs, raised |-> TRUE]
    ELSE save_csv(fs, props, SnapshotCsv(stage))

\* after the loop: the statistics are printed and the records are saved as
\* JSON.  [files, raised]
save_snapshot(stage, props, fs) ==
    IF \E i \in DOMAIN ReportedFields(stage) :
           print_distribution_raises(props, ReportedFields(stage)[i],
                                     ReportTopN(stage))
    THEN [files |-> fs, raised |-> TRUE]
    ELSE [files |-> save_json(fs, json_dump_records(props), SnapshotJson(stage)),
          raised |-> FALSE]

\* then the records are saved as CSV.  [files, raised]
save_snapshot_csv(stage, props, fs) == save_csv(fs, props, SnapshotCsv(stage))

\* then the summary is generated and saved.  [files, raised]
save_summary(stage, props, fs) ==
    LET cluster_summary == generate_cluster_summary(props, "business_use_case")
        f3 == save_json(fs,
                        IF stage = Phase2
                        THEN json_dump_records(cluster_summary)
                        ELSE json_dump_counts(count_summary(stage, props)),
                        SummaryJson(stage))
    IN  IF stage = Phase2
        THEN save_csv(f3, cluster_summary, BusinessSummaryCsv)
        ELSE [files |-> f3, raised |-> FALSE]

\* the closing statements of a stage function, one after the other, up to
\* the first that raises.  [files, raised]
finish_stage(stage, props, fs) ==
    LET c1 == save_snapshot(stage, props, fs)
        c2 == save_snapshot_csv(stage, props, c1.files)
    IN  IF c1.raised THEN c1
        ELSE IF c2.raised THEN c2
        ELSE save_summary(stage, props, c2.files)

\* a closing statement of the stage function has run
Closing(done, next_pc) ==
    /\ files' = done.files
    /\ pc' = IF done.raised THEN "raised" ELSE next_pc
    /\ UNCHANGED <<entry, proposals, proposals0, batch_num, system_types, prompt,
                   batch_log, prompts, responses>>
    /\ UNCHANGED call_vars
    /\ UNCHANGED discovery_log
    /\ UNCHANGED pipeline_vars

\* print_distribution and save_json of the record list
StageFinish ==
    /\ entry \in Stages
    /\ pc = "finish"
    /\ \E done \in {save_snapshot(entry, proposals, files)} :
           Closing(done, "save_csv")

\* save_csv of the record list
StageSaveCsv ==
    /\ entry \in Stages
    /\ pc = "save_csv"
    /\ \E done \in {save_snapshot_csv(entry, proposals, files)} :
           Closing(done, "summary")

\* the summary object (and, for the business stage, its CSV)
StageSummary ==
    /\ entry \in Stages
    /\ pc = "summary"
    /\ \E done \in {save_summary(entry, proposals, files)} :
           Closing(done, "returned")

Next ==
    \/ Phase2Discover
    \/ Phase2Discovered
    \/ Phase2DiscoveryRaised
    \/ Phase3Start
    \/ Phase4Start
    \/ LlmRequest
    \/ LlmSleep
    \/ BatchMerged
    \/ BatchFailed
    \/ StageFinish
    \/ StageSaveCsv
    \/ StageSummary

Spec == InitStage /\ [][Next]_vars

NextCall ==
    \/ BatchCallerSend
    \/ LlmRequest
    \/ LlmSleep
    \/ BatchCallerCollect
    \/ BatchCallerReturn

SpecCall == InitCall /\ [][NextCall]_vars

(***************************************************************************)
(* A stage run a second time, on the record list loaded from the snapshot  *)
(* its first run wrote, with the replies of the first run                  *)
(***************************************************************************)
Rerun ==
    /\ entry \in Stages
    /\ pc \in {"returned", "raised"}
    /\ ~Replaying
    /\ files[SnapshotJson(entry)] # NoFile
    /\ proposals' = records_of(load_json(files, SnapshotJson(entry)).data)
    /\ proposals0' = proposals'
    /\ first_run' = [replay |-> TRUE,
                     proposals |-> proposals, files |-> files, pc |-> pc,
                     log |-> batch_log, discovery |-> discovery_log]
    /\ pc' = "start"
    /\ batch_num' = 0
    /\ system_types' = None
    /\ prompt' = PlainPrompt
    /\ batch_log' = <<>>
    /\ discovery_log' = None
    /\ max_retries' = DefaultMaxRetries
    /\ attempt' = 0
    /\ call_trace' = <<>>
    /\ call_pc' = "idle"
    /\ call_result' = None
    /\ UNCHANGED <<entry, files, prompts, responses, dir_exists, companies_dir,
                   console, args, main_pc, api_key>>

NextRerun ==
    \/ Next
    \/ Rerun

SpecRerun == InitStage /\ [][NextRerun]_vars

(***************************************************************************)
(* phase1_extract_proposals (analyze.py) over an arbitrary data directory  *)
(***************************************************************************)
InitExtract ==
    /\ entry = Phase1
    /\ pc = "start"
    /\ proposals = <<>>
    /\ proposals0 = proposals
    /\ batch_num = 0
    /\ system_types = None
    /\ prompt = PlainPrompt
    /\ files = [f \in FileNames |-> NoFile]
    /\ batch_log = <<>>
    /\ prompts = <<>>
    /\ responses = <<>>
    /\ max_retries = DefaultMaxRetries
    /\ attempt = 0
    /\ call_trace = <<>>
    /\ call_pc = "idle"
    /\ call_result = None
    /\ discovery_log = None
    /\ first_run = NoFirstRun
    /\ dir_exists = TRUE
    /\ companies_dir \in CompanyDirs
    /\ console = <<>>
    /\ args = <<>>
    /\ main_pc = "none"
    /\ api_key = TRUE

\* extraction, then the raw snapshots
Phase1Extract ==
    /\ entry = Phase1
    /\ pc = "start"
    /\ \E got \in {extract_proposals_from_companies(companies_dir)} :
       LET f1 == save_json(files, json_dump_records(got.proposals), RawJson)
           c2 == save_csv(f1, got.proposals, RawCsv)
       IN  /\ proposals' = got.proposals
           /\ console' = console \o [i \in DOMAIN got.errors |->
                                        <<"Error processing", got.errors[i]>>]
           /\ files' = c2.files
           /\ pc' = IF c2.raised THEN "raised" ELSE "returned"
    /\ UNCHANGED <<entry, proposals0, batch_num, system_types, prompt, batch_log,
                   discovery_log, prompts, responses>>
    /\ UNCHANGED call_vars
    /\ UNCHANGED <<first_run, dir_exists, companies_dir, args, main_pc, api_key>>

NextExtract == Phase1Extract

SpecExtract == InitExtract /\ [][NextExtract]_vars

(***************************************************************************)
(* validate_environment (utils.py) and phase5_generate_summary (analyze.py)*)
(***************************************************************************)
\* a variant that only warns about a missing data directory
validate_environment_DirOptional(key, exists, dir) ==
    LET errors == IF key THEN <<>> ELSE << <<"ANTHROPIC_API_KEY not found">> >>
        warnings == IF exists THEN <<>> ELSE << <<"Data directory not found">> >>
    IN  [ok |-> errors = <<>>,
         printed |-> IF errors # <<>>
                     THEN << <<"ENVIRONMENT VALIDATION FAILED">> >> \o errors
                     ELSE warnings \o << <<"Environment validated">> >>]

\* [ok |-> the returned flag, printed |-> the lines printed]
validate_environment(key, exists, dir) ==
    LET errors ==
            (IF key THEN <<>> ELSE << <<"ANTHROPIC_API_KEY not found">> >>)
            \o (IF exists THEN <<>> ELSE << <<"Data directory not found">> >>)
        warnings ==
            IF exists /\ \A c \in DOMAIN dir : dir[c] = NoProposalsFile
            THEN << <<"Data directory exists but contains no proposals">> >>
            ELSE <<>>
    IN  [ok |-> errors = <<>>,
         printed |-> IF errors # <<>>
                     THEN << <<"ENVIRONMENT VALIDATION FAILED">> >> \o errors
                     ELSE (IF warnings # <<>>
                           THEN << <<"ENVIRONMENT WARNINGS">> >> \o warnings
                           ELSE <<>>)
                          \o << <<"Environment validated">> >>]

\* the count entries of the summary: <<key of the summary, field counted>>
SummaryCounts ==
    << <<"business_use_cases", "business_use_case">>,
       <<"architecture_patterns", "architecture_pattern">>,
       <<"reasoning_patterns", "reasoning_pattern">>,
       <<"execution_patterns", "execution_pattern">>,
       <<"tool_integration", "tool_integration">>,
       <<"human_oversight", "human_oversight">> >>

\* a variant that counts the records as companies
num_companies_PerRecord(props) == Len(props)

\* len(set(p['company'] for p in proposals))
num_companies(props) ==
    Cardinality({props[i].val["company"] : i \in DOMAIN props})

\* [raised |-> a KeyError (record without 'company') or a TypeError
\* (unhashable value) left the function, doc |-> the JSON document saved]
phase5_generate_summary(props) ==
    LET counts == [keys |-> [i \in DOMAIN SummaryCounts |-> SummaryCounts[i][1]],
                   val  |-> [k \in {SummaryCounts[i][1] : i \in DOMAIN SummaryCounts} |->
                                count_values(props,
                                    SummaryCounts[CHOOSE i \in DOMAIN SummaryCounts :
                                                      SummaryCounts[i][1] = k][2]).counts]]
    IN  IF \/ \E i \in DOMAIN props :
                  \/ ~HasKey(props[i], "company")
                  \/ ~Hashable(props[i].val["company"])
           \/ \E i \in DOMAIN SummaryCounts :
                  count_values(props, SummaryCounts[i][2]).raised
        THEN [raised |-> TRUE, doc |-> JNull]
        ELSE [raised |-> FALSE,
              doc |-> JObject(<< <<"total_proposals", JNumber(Len(props))>>,
                                 <<"num_companies", JNumber(num_companies(props))>> >>
                              \o json_dump_counts(counts)[2])]

(***************************************************************************)
(* main (analyze.py)                                                       *)
(***************************************************************************)
Main == "main"
Phases == {Phase1} \cup Stages

\* --sample N (0: not given) and the flags
ArgSets ==
    [sample : {0, 1}, skip_extract : BOOLEAN, skip_business : BOOLEAN,
     skip_architecture : BOOLEAN, skip_implementation : BOOLEAN,
     validate : BOOLEAN]

Skipped(phase) ==
    CASE phase = Phase1 -> args.skip_extract
      [] phase = Phase2 -> args.skip_business
      [] phase = Phase3 -> args.skip_architecture
      [] phase = Phase4 -> args.skip_implementation

\* the snapshot loaded in place of the phase
SkipSnapshot(phase) == IF phase = Phase1 THEN RawJson ELSE SnapshotJson(phase)

\* the block of main after the block of the phase
After(phase) ==
    CASE phase = Phase1 -> "sample"
      [] phase = Phase2 -> Phase3
      [] phase = Phase3 -> Phase4
      [] phase = Phase4 -> "summary"

\* random.sample(population, k): k elements at distinct positions, any order
Samples(population, k) ==
    {[i \in 1..k |-> population[pos[i]]] :
        pos \in {q \in [1..k -> DOMAIN population] :
                    \A i, j \in 1..k : i # j => q[i] # q[j]}}

\* the outputs directory: empty, or as a complete earlier run left it
NoFiles == [f \in FileNames |-> NoFile]
EarlierRecords(upto) ==
    [i \in 1..MaxRecords |-> WithStageLabels(RawRecord(i), upto)]
EarlierRunFiles ==
    LET raw == save_csv(save_json(NoFiles, json_dump_records(EarlierRecords(0)),
                                  RawJson),
                        EarlierRecords(0), RawCsv).files
        f2 == finish_stage(Phase2, EarlierRecords(1), raw).files
        f3 == finish_stage(Phase3, EarlierRecords(2), f2).files
        f4 == finish_stage(Phase4, EarlierRecords(3), f3).files
    IN  save_json(f4, phase5_generate_summary(EarlierRecords(3)).doc,
                  AnalysisSummaryJson)

\* data directories: without any proposals file, and with two companies of
\* one proposal each
EmptyDataDir == [c \in CompanyNames |-> NoProposalsFile]
TwoCompanyDir ==
    [c \in CompanyNames |->
        IF c \in {Str(<<"c", "1">>), Str(<<"c", "2">>)}
        THEN JsonFile(json_dump(Dict(DictOf(<<
                 <<"proposals", List(<<PlainEntry(1)>>)>> >>))))
        ELSE NoProposalsFile]

InitMain ==
    /\ entry = Main
    /\ pc = "idle"
    /\ proposals = <<>>
    /\ proposals0 = <<>>
    /\ batch_num = 0
    /\ system_types = None
    /\ prompt = PlainPrompt
    /\ files \in {NoFiles, EarlierRunFiles}
    /\ batch_log = <<>>
    /\ prompts = <<>>
    /\ responses = <<>>
    /\ max_retries = DefaultMaxRetries
    /\ attempt = 0
    /\ call_trace = <<>>
    /\ call_pc = "idle"
    /\ call_result = None
    /\ discovery_log = None
    /\ first_run = NoFirstRun
    /\ dir_exists \in BOOLEAN
    /\ companies_dir \in IF dir_exists THEN {EmptyDataDir, TwoCompanyDir}
                         ELSE {EmptyDataDir}
    /\ console = <<>>
    /\ args \in ArgSets
    /\ main_pc = "validate"
    /\ api_key \in BOOLEAN

\* main stays in its own frame
MainStays ==
    UNCHANGED <<entry, pc, proposals0, batch_num, system_types, prompt, batch_log,
                discovery_log, prompts, responses, first_run, dir_exists,
                companies_dir, args, api_key>>

\* a variant that goes on to the phases under --validate
after_validation_RunsOn(ok, validate) == IF ~ok THEN "exit1" ELSE Phase1

\* where main goes after validate_environment: return 1, return 0, phase 1
after_validation(ok, validate) ==
    IF ~ok THEN "exit1"
    ELSE IF validate THEN "exit0"
    ELSE Phase1

\* validate_environment, return 1 on failure, return 0 with --validate
MainValidate ==
    /\ entry = Main
    /\ main_pc = "validate"
    /\ LET checked == validate_environment(api_key, dir_exists, companies_dir)
       IN  /\ console' = console \o checked.printed
                          \o (IF checked.ok /\ args.validate
                              THEN << <<"All checks passed">> >> ELSE <<>>)
           /\ main_pc' = after_validation(checked.ok, args.validate)
    /\ UNCHANGED <<proposals, files>>
    /\ UNCHANGED call_vars
    /\ MainStays

\* a variant without any try/except around the load
skip_caught_Never(phase) == FALSE

\* whether the load of the skipped phase's snapshot stands inside try/except
skip_caught(phase) == phase # Phase1

\* a variant in which a loaded snapshot does not replace the records
after_skip_KeepsRecords(loaded, props) == props

\* the records of main after the block of a skipped phase: the loaded
\* snapshot, or, when the load failed, the records as they were
after_skip(loaded, props) ==
    IF loaded.raised THEN props ELSE records_of(loaded.data)

\* the block of a phase: the snapshot is loaded (inside try/except but for
\* the extraction), or the phase function is called
MainPhase(phase) ==
    /\ entry = Main
    /\ main_pc = phase
    /\ IF Skipped(phase)
       THEN \E loaded \in {load_json(files, SkipSnapshot(phase))} :
                /\ console' = console \o << <<"Skipping", phase>> >>
                       \o (IF loaded.raised /\ skip_caught(phase)
                           THEN << <<"Warning: Could not load", phase>> >>
                           ELSE <<>>)
                /\ proposals' = after_skip(loaded, proposals)
                /\ main_pc' = IF loaded.raised /\ ~skip_caught(phase) THEN "crashed"
                              ELSE After(phase)
                /\ UNCHANGED files
                /\ UNCHANGED call_vars
                /\ MainStays
       ELSE /\ entry' = phase
            /\ pc' = "start"
            /\ proposals0' = proposals
            /\ batch_num' = 0
            /\ system_types' = None
            /\ batch_log' = <<>>
            /\ UNCHANGED <<proposals, prompt, files, prompts, responses,
                           discovery_log>>
            /\ UNCHANGED call_vars
            /\ UNCHANGED pipeline_vars

\* the phase function returned: main goes on with the records it returned
MainPhaseReturned ==
    /\ entry \in Phases
    /\ main_pc = entry
    /\ pc = "returned"
    /\ entry' = Main
    /\ pc' = "idle"
    /\ main_pc' = After(entry)
    /\ UNCHANGED <<proposals, proposals0, batch_num, system_types, prompt, files,
                   batch_log, discovery_log, prompts, responses, first_run,
                   dir_exists, companies_dir, console, args, api_key>>
    /\ UNCHANGED call_vars

\* the phase function raised: the exception leaves main
MainPhaseRaised ==
    /\ entry \in Phases
    /\ main_pc = entry
    /\ pc = "raised"
    /\ entry' = Main
    /\ pc' = "idle"
    /\ main_pc' = "crashed"
    /\ UNCHANGED <<proposals, proposals0, batch_num, system_types, prompt, files,
                   batch_log, discovery_log, prompts, responses, first_run,
                   dir_exists, companies_dir, console, args, api_key>>
    /\ UNCHANGED call_vars

\* --sample: a random sample replaces the list when it is shorter
MainSample ==
    /\ entry = Main
    /\ main_pc = "sample"
    /\ IF args.sample # 0 /\ args.sample < Len(proposals)
       THEN /\ proposals' \in Samples(proposals, args.sample)
            /\ console' = console \o << <<"Sampling", args.sample>> >>
       ELSE UNCHANGED <<proposals, console>>
    /\ main_pc' = Phase2
    /\ UNCHANGED files
    /\ UNCHANGED call_vars
    /\ MainStays

\* phase5_generate_summary and the end of main
MainSummary ==
    /\ entry = Main
    /\ main_pc = "summary"
    /\ \E made \in {phase5_generate_summary(proposals)} :
           /\ files' = IF made.raised THEN files
                       ELSE save_json(files, made.doc, AnalysisSummaryJson)
           /\ main_pc' = IF made.raised THEN "crashed" ELSE "done"
           /\ console' = IF made.raised THEN console
                         ELSE console \o << <<"ANALYSIS COMPLETE">> >>
    /\ UNCHANGED proposals
    /\ UNCHANGED call_vars
    /\ MainStays

(***************************************************************************)
(* load_proposals (visualize.py), run after the pipeline                   *)
(***************************************************************************)
LoadProposals == "load_proposals"

\* [exited |-> the load failed and exit(1) was called, proposals |-> the
\* records returned]
load_proposals(fs) ==
    LET loaded == load_json(fs, "proposals_complete.json")
    IN  [exited |-> loaded.raised,
         proposals |-> IF loaded.raised THEN <<>> ELSE records_of(loaded.data)]

\* visualize.py is run once analyze.py has finished: proposals becomes the
\* list its main receives from load_proposals
Visualize ==
    /\ entry = Main
    /\ main_pc = "done"
    /\ \E got \in {load_proposals(files)} :
           /\ proposals' = got.proposals
           /\ pc' = IF got.exited THEN "exited" ELSE "returned"
           /\ console' = console \o (IF got.exited
                                     THEN << <<"Error: proposals_complete.json not found">> >>
                                     ELSE <<>>)
    /\ entry' = LoadProposals
    /\ UNCHANGED <<proposals0, batch_num, system_types, prompt, files, batch_log,
                   discovery_log, prompts, responses, first_run, dir_exists,
                   companies_dir, args, main_pc, api_key>>
    /\ UNCHANGED call_vars

NextMain ==
    \/ MainValidate
    \/ \E phase \in Phases : MainPhase(phase)
    \/ MainPhaseReturned
    \/ MainPhaseRaised
    \/ MainSample
    \/ MainSummary
    \/ Visualize
    \/ Phase1Extract
    \/ Next

SpecMain == InitMain /\ [][NextMain]_vars

(***************************************************************************)
(* The reply parser on its own: the discovery call of the business stage   *)
(* has answered with an arbitrary short text over the token alphabet, and  *)
(* the stage (over no records) parses it.                                  *)
(***************************************************************************)
MaxTextLen == 4

TextTokens == {W, LB, RB, LC, RC, COMMA, PInt(1), Key("k")}
Texts == UNION {[1..n -> TextTokens] : n \in 0..MaxTextLen}

InitParse ==
    /\ entry = Phase2
    /\ pc = "discover"
    /\ proposals = <<>>
    /\ proposals0 = proposals
    /\ batch_num = 0
    /\ system_types = None
    /\ prompt = render_prompt(DiscoveryTemplate, <<>>, None)
    /\ files = [f \in FileNames |-> NoFile]
    /\ batch_log = <<>>
    /\ prompts = <<>>
    /\ responses = <<>>
    /\ max_retries = DefaultMaxRetries
    /\ attempt = 0
    /\ \E text \in Texts :
           /\ call_trace = << <<"request", <<"ok", text>>>> >>
           /\ call_result = <<"ok", text>>
    /\ call_pc = "returned"
    /\ discovery_log = None
    /\ CalledAlone

NextParse ==
    \/ Phase2Discovered
    \/ StageFinish
    \/ StageSaveCsv
    \/ StageSummary

SpecParse == InitParse /\ [][NextParse]_vars

(***************************************************************************)
(* Properties of call_llm, checked under SpecCall                          *)
(***************************************************************************)
E500 == APIStatusError(500)
RequestOf(answer) == <<"request", answer>>
SleepOf(seconds) == <<"sleep", seconds>>
IsOk(answer) == answer[1] = "ok"

\* the call has ended (call_llm_batch has perhaps already taken its outcome)
CallEnded == call_pc \in {"returned", "raised", "idle"}

\* C3: with max_retries = 3, when the API answers status 500 twice and then
\* succeeds, call_llm made exactly three requests, slept exactly twice, 1 s
\* after the first failure and 2 s after the second, and returned the text of
\* the third answer.
C3_TwoFailuresThenText ==
    LET answers == Answers(call_trace)
    IN  (/\ max_retries = 3
         /\ Len(answers) = 3
         /\ answers[1] = E500
         /\ answers[2] = E500
         /\ IsOk(answers[3]))
        => /\ call_trace = <<RequestOf(E500), SleepOf(1), RequestOf(E500),
                             SleepOf(2), RequestOf(answers[3])>>
           /\ call_pc \in {"returned", "idle"}
           /\ call_result = answers[3]

C3_Witness ==
    /\ max_retries = 3
    /\ call_pc = "returned"
    /\ Answers(call_trace) = <<E500, E500, <<"ok", <<LB, RB>>>>>>
    /\ Waits(call_trace) = <<1, 2>>
    /\ call_result = <<"ok", <<LB, RB>>>>

\* C4: only an APIStatusError with status 500 is retried.  A request that
\* fails in any other way (another status, an APIError without status) is the
\* last thing the call does: no sleep and no request follow it, and call_llm
\* raises that error; when it is the first request, the call made one request
\* and slept zero times.  Every sleep directly follows a request answered 500.
C4_OnlyStatus500Retried ==
    /\ \A i \in DOMAIN call_trace :
          (/\ IsRequest(call_trace[i])
           /\ ~IsOk(call_trace[i][2])
           /\ call_trace[i][2] # E500)
          => /\ i = Len(call_trace)
             /\ call_pc \in {"raised", "idle"}
             /\ call_result = <<"raise", call_trace[i][2]>>
             /\ (i = 1 => /\ Requests(call_trace) = 1
                          /\ Waits(call_trace) = <<>>)
    /\ \A i \in DOMAIN call_trace :
          IsSleep(call_trace[i])
          => i > 1 /\ call_trace[i - 1] = RequestOf(E500)

C4_Witness ==
    /\ call_pc = "raised"
    /\ call_trace = <<RequestOf(E500), SleepOf(1),
                      RequestOf(APIStatusError(429))>>
    /\ call_result = <<"raise", APIStatusError(429)>>

\* the backoff sleeps 2^0, 2^1, ... seconds
ExpectedBackoff == <<1, 2, 4, 8, 16, 32>>

AllAnswers500 ==
    LET answers == Answers(call_trace)
    IN  answers # <<>> /\ \A i \in DOMAIN answers : answers[i] = E500

NumStageBatches == NumBatches(Len(proposals), batch_size(entry))

\* positions in the record list of the records of batch b
BatchRange(b) ==
    BatchLo(b, batch_size(entry))..BatchHi(b, batch_size(entry), Len(proposals))

SentinelDefault(f) == IF f = "architecture_confidence" THEN low ELSE Unknown

HasSentinelDefaults(stage, rec) ==
    \A f \in Range(StageFields(stage)) :
        HasKey(rec, f) /\ rec.val[f] = SentinelDefault(f)

HasLabel(stage, rec, label) ==
    \A f \in Range(StageFields(stage)) : HasKey(rec, f) /\ rec.val[f] = label

GarbledBatch(b) ==
    batch_log[b][1] = "ok" /\ batch_log[b][2] \in GarbledReplies(entry)

FailedBatch(b) == batch_log[b][1] = "raise"

\* C1: in every stage, a batch whose reply holds no parseable JSON array
\* leaves every record of the batch with the stage's full set of sentinel
\* defaults (1 business field, 8 architecture fields with
\* architecture_confidence 'low', 12 implementation fields), and the stage
\* function does not raise on account of such a batch.
C1_GarbledReplyGivesDefaults ==
    /\ Len(StageFields(Phase2)) = 1
    /\ Len(StageFields(Phase3)) = 8
    /\ Len(StageFields(Phase4)) = 12
    /\ \A b \in DOMAIN batch_log :
          GarbledBatch(b)
          => \A i \in BatchRange(b) : HasSentinelDefaults(entry, proposals[i])
    /\ (pc = "raised" /\ batch_log # <<>>)
       => \E b \in DOMAIN batch_log : ~GarbledBatch(b) /\ ~FailedBatch(b)

C1_Witness ==
    /\ entry = Phase3
    /\ pc = "returned"
    /\ Len(batch_log) = 2
    /\ batch_log[1] = <<"ok", <<W, LB, Dict(FullObject(Phase3, 1, LabelA))>>>>
    /\ batch_log[2] = <<"ok", ArrayText(<<FullObject(Phase3, 1, LabelB)>>)>>
    /\ HasSentinelDefaults(Phase3, proposals[1])
    /\ HasSentinelDefaults(Phase3, proposals[2])
    /\ HasLabel(Phase3, proposals[3], LabelB)

\* C2: after a stage function that ran its batch loop returns, every record
\* has the keys company and proposal_name and every label field of the stage.
C2_EveryRecordCarriesEveryLabel ==
    (/\ entry \in Stages
     /\ pc = "returned"
     /\ Len(batch_log) = NumStageBatches)
    => \A i \in DOMAIN proposals :
          /\ HasKey(proposals[i], "company")
          /\ HasKey(proposals[i], "proposal_name")
          /\ \A f \in Range(StageFields(entry)) : HasKey(proposals[i], f)

\* C6, in states: a batch whose call raised has the sentinel defaults on
\* every record, and the stage function raises, if at all, only after all
\* batches were processed.
C6_FailedBatchHasDefaults ==
    \A b \in DOMAIN batch_log :
        FailedBatch(b)
        => /\ \A i \in BatchRange(b) :
                 HasSentinelDefaults(entry, proposals[i])
           /\ pc = "raised" => Len(batch_log) = NumStageBatches

\* C6, in steps: when the call of a batch has raised, the stage goes on to the
\* next batch (or to its closing statements after the last one), the records
\* of the batch get the defaults and all other records stay as they are.
C6_FailedBatchStep ==
    (entry \in Stages /\ pc = "batch" /\ call_pc = "raised")
    => /\ batch_num' = batch_num + 1
       /\ pc' = IF batch_num < NumStageBatches THEN "batch" ELSE "finish"
       /\ Len(proposals') = Len(proposals)
       /\ \A i \in DOMAIN proposals :
             IF i \in BatchRange(batch_num)
             THEN HasSentinelDefaults(entry, proposals'[i])
             ELSE proposals'[i] = proposals[i]

\* C6: in every stage, when the network call of a batch raises, every record
\* of that batch gets the stage's sentinel defaults, the error is not
\* propagated, the stage goes on with the next batch, and the records of the
\* other batches are not affected.
C6_CallErrorIsCaughtPerBatch ==
    []C6_FailedBatchHasDefaults /\ [][C6_FailedBatchStep]_vars

C6_Witness ==
    /\ entry = Phase4
    /\ pc = "returned"
    /\ Len(batch_log) = 2
    /\ batch_log[1] = <<"raise", APIConnectionError>>
    /\ batch_log[2] = <<"ok", ArrayText(<<FullObject(Phase4, 1, LabelB)>>)>>
    /\ HasSentinelDefaults(Phase4, proposals[1])
    /\ HasSentinelDefaults(Phase4, proposals[2])
    /\ HasLabel(Phase4, proposals[3], LabelB)

\* the discovery call of the business stage has given the stage an error
DiscoveryError ==
    /\ entry = Phase2
    /\ prompt.template = DiscoveryTemplate
    /\ call_pc = "idle"
    /\ call_result[1] = "raise"

\* C7 as stated: an API error that call_llm leaves unrecovered during a stage
\* propagates out of the stage function, and a stage function is left by an
\* exception only on account of such an error.
C7_EveryApiErrorLeavesStage ==
    /\ \A b \in DOMAIN batch_log : FailedBatch(b) => pc = "raised"
    /\ pc = "raised" => call_result[1] = "raise"

\* C7, amended: an unrecovered API error leaves the stage function only when
\* the discovery call of the business stage raised it, and then no record and
\* no file was touched; raised by the call of a batch it is caught and the
\* loop goes on.  Apart from a discovery error a stage function raises only
\* after its batch loop, in its closing statistics and file output.
C7_OnlyDiscoveryErrorLeavesStage ==
    /\ DiscoveryError
       => /\ pc = "raised"
          /\ batch_log = <<>>
          /\ proposals = proposals0
          /\ \A f \in DOMAIN files : files[f] = NoFile
    /\ \A b \in DOMAIN batch_log :
          (FailedBatch(b) /\ pc = "raised") => Len(batch_log) = NumStageBatches
    /\ pc = "raised"
       => \/ DiscoveryError
          \/ /\ batch_num = NumStageBatches + 1
             /\ Len(batch_log) = NumStageBatches

C7_Witness ==
    /\ pc = "raised"
    /\ DiscoveryError
    /\ Len(proposals) = MaxRecords
    /\ Answers(call_trace) = <<E500, E500, E500>>
    /\ call_result = <<"raise", E500>>

\* replies made of complete classification objects only
FullObjectLists(stage, len) ==
    {objs \in ObjectLists(stage, len) :
        \A k \in DOMAIN objs :
            \E i \in 0..(len + 1), label \in {LabelA, LabelB} :
                objs[k] = FullObject(stage, i, label)}

IndexOf(stage, classif) == classif.val[index_key(stage)][2]
LabelOf(stage, classif) == classif.val[ClassifKeys(stage)[1]]

\* C8, in steps: merging a parsed reply of complete objects raises nothing;
\* the record at position j of the batch takes the labels of an object whose
\* index is j, and a record that no object of its own batch's reply addresses,
\* in this or any other batch, stays exactly as it is (so an object with an
\* index outside 1..len(batch) changes nothing).
C8_MergeStep ==
    (entry \in Stages /\ pc = "batch" /\ call_pc = "returned")
    => \A objs \in FullObjectLists(entry, Len(prompt.proposals)) :
          call_result = <<"ok", ArrayText(objs)>>
          => /\ pc' \in {"batch", "finish"}
             /\ Len(proposals') = Len(proposals)
             /\ \A i \in DOMAIN proposals :
                   LET j == i - BatchLo(batch_num, batch_size(entry)) + 1
                       mine == {k \in DOMAIN objs :
                                   /\ i \in BatchRange(batch_num)
                                   /\ IndexOf(entry, objs[k]) = j}
                   IN  IF mine = {} THEN proposals'[i] = proposals[i]
                       ELSE \E k \in mine :
                               HasLabel(entry, proposals'[i],
                                        LabelOf(entry, objs[k]))

\* C8: each classification object of a parsed reply is applied to the record
\* at position index-1 of its own batch ('idx' in the business stage,
\* 'proposal_index' in the others); an object whose index is out of range
\* modifies no record and raises nothing.
C8_IndexAddressesOwnBatch == [][C8_MergeStep]_vars

C8_Witness ==
    /\ entry = Phase2
    /\ pc = "returned"
    /\ Len(batch_log) = 2
    /\ batch_log[1] = <<"ok", ArrayText(<<FullObject(Phase2, 0, LabelB),
                                          FullObject(Phase2, 1, LabelA)>>)>>
    /\ batch_log[2] = <<"ok", ArrayText(<<FullObject(Phase2, 1, LabelA),
                                          FullObject(Phase2, 2, LabelB)>>)>>
    /\ HasLabel(Phase2, proposals[1], LabelA)
    /\ proposals[2] = proposals0[2]
    /\ HasLabel(Phase2, proposals[3], LabelA)

\* the label field that a key of a classification object feeds
FieldOf(key) ==
    CASE key = "type" -> "business_use_case"
      [] key = "confidence" -> "architecture_confidence"
      [] OTHER -> key

\* the reply to a batch of len records: a complete object for record 1 and an
\* object for record len that lacks key
ReplyLacking(stage, len, key) ==
    ArrayText(<<FullObject(stage, 1, LabelA),
                Without(FullObject(stage, len, LabelB), key)>>)

\* C9: in every stage, when an object of a parsed reply has a valid index but
\* lacks a label key, only the field of that key of the record it addresses
\* falls back ('Unknown', or the stage's default), the other fields of that
\* record take the object's labels, and the other record of the batch keeps
\* the labels of its own object.
C9_MissingKeyFallsBackAlone ==
    \A b \in DOMAIN batch_log :
      \A key \in MissingChoices(entry) :
        LET lo == BatchLo(b, batch_size(entry))
            hi == BatchHi(b, batch_size(entry), Len(proposals))
            len == hi - lo + 1
        IN  (len >= 2 /\ batch_log[b] = <<"ok", ReplyLacking(entry, len, key)>>)
            => /\ HasLabel(entry, proposals[lo], LabelA)
               /\ \A f \in Range(StageFields(entry)) :
                     /\ HasKey(proposals[hi], f)
                     /\ proposals[hi].val[f] =
                            IF f # FieldOf(key) THEN LabelB
                            ELSE IF key = "confidence" THEN unknown_lower
                            ELSE Unknown

\* keys a record has after the stage and had not before
AddedKeys(i) == Range(proposals[i].keys) \ Range(proposals0[i].keys)

\* every key that is not a label field of the stage is kept with its value,
\* and the keys present before keep their order
ForeignKeysKept(i) ==
    LET before == proposals0[i]
        after == proposals[i]
    IN  /\ \A k \in Range(before.keys) \ Range(StageFields(entry)) :
              HasKey(after, k) /\ after.val[k] = before.val[k]
        /\ SelectSeq(after.keys, LAMBDA k : HasKey(before, k)) = before.keys

\* C10 as stated: after a stage returns the record list has the same length
\* and order, every key that is not a label field of the stage is still
\* present with its value, and the only keys added are the stage's own label
\* fields.
C10_OnlyOwnLabelKeysAdded ==
    (entry \in Stages /\ pc = "returned")
    => /\ Len(proposals) = Len(proposals0)
       /\ \A i \in DOMAIN proposals0 :
             /\ ForeignKeysKept(i)
             /\ AddedKeys(i) \subseteq Range(StageFields(entry))

\* C10, amended: as stated, except that the architecture stage also adds
\* business_use_case = 'Unknown' to a record that comes without that key.
C10_OwnLabelKeysOrEnsuredBusinessKey ==
    (entry \in Stages /\ pc = "returned")
    => /\ Len(proposals) = Len(proposals0)
       /\ \A i \in DOMAIN proposals0 :
             /\ ForeignKeysKept(i)
             /\ \A k \in AddedKeys(i) :
                   \/ k \in Range(StageFields(entry))
                   \/ /\ entry = Phase3
                      /\ k = "business_use_case"
                      /\ proposals[i].val[k] = Unknown

C10_Witness ==
    /\ entry = Phase3
    /\ pc = "returned"
    /\ Len(proposals) = MaxRecords
    /\ Len(batch_log) = 2
    /\ AddedKeys(1) = Range(ArchFields) \cup {"business_use_case"}
    /\ HasLabel(Phase3, proposals[1], LabelA)
    /\ proposals[1].val["business_use_case"] = Unknown
    /\ proposals[MaxRecords].val["proposal_name"]
           = proposals0[MaxRecords].val["proposal_name"]

(***************************************************************************)
(* Properties of count_values, checked on the record lists of Spec         *)
(***************************************************************************)
RECURSIVE SeqSum(_)
SeqSum(ns) == IF ns = <<>> THEN 0 ELSE Head(ns) + SeqSum(Tail(ns))

\* record.get(field, 'Unknown') of every record
FieldValues(field) ==
    [i \in DOMAIN proposals |-> DictGet(proposals[i], field, Unknown)]

IsMultiValued(v) == IsStr(v) /\ ContainsCommaSpace(v[2])

\* the buckets a value counts for
Components(v) ==
    IF IsMultiValued(v)
    THEN LET parts == split_comma(v[2]) IN [j \in DOMAIN parts |-> Str(parts[j])]
    ELSE <<v>>

\* increments the records give to a bucket
Increments(field, bucket) ==
    SeqSum([i \in DOMAIN proposals |->
               LET cs == Components(FieldValues(field)[i])
               IN  Cardinality({j \in DOMAIN cs : cs[j] = bucket})])

AllBuckets(field) ==
    UNION {Range(Components(FieldValues(field)[i])) : i \in DOMAIN proposals}

CountSum(counts) ==
    SeqSum([i \in DOMAIN counts.keys |-> counts.val[counts.keys[i]]])

\* what C11 says of count_values(proposals, field)
CountsAsClaimed(field) ==
    LET cv == count_values(proposals, field)
        vals == FieldValues(field)
        n == Len(proposals)
    IN  /\ ~cv.raised
        /\ Range(cv.counts.keys) = AllBuckets(field)
        /\ \A b \in AllBuckets(field) : cv.counts.val[b] = Increments(field, b)
        /\ \A i \in DOMAIN proposals :
              ~HasKey(proposals[i], field) => cv.counts.val[Unknown] >= 1
        /\ CountSum(cv.counts) >= n
        /\ (CountSum(cv.counts) > n <=> \E i \in DOMAIN vals : IsMultiValued(vals[i]))

\* C11 as stated: for every label field of the stage, a value that contains
\* ', ' gives one increment to the bucket of each split component, any other
\* value one increment to its own bucket, a record without the field one
\* increment to 'Unknown'; the bucket counts sum to at least the number of
\* records, to more exactly when some value is multi-valued.
C11_EveryValueCounted ==
    entry \in Stages
    => \A f \in Range(StageFields(entry)) : CountsAsClaimed(f)

\* C11, amended: the same for values that can be dict keys (str, int, None);
\* a list or dict value in the field makes count_values raise TypeError.
C11_HashableValuesCounted ==
    entry \in Stages
    => \A f \in Range(StageFields(entry)) :
          IF \A i \in DOMAIN proposals : Hashable(FieldValues(f)[i])
          THEN CountsAsClaimed(f)
          ELSE count_values(proposals, f).raised

C11_Witness ==
    LET cv == count_values(proposals, "knowledge_representation")
    IN  /\ entry = Phase3
        /\ Len(proposals) = 2
        /\ HasKey(proposals[1], "knowledge_representation")
        /\ proposals[1].val["knowledge_representation"]
               = Str(<<"A", ",", " ", "B">>)
        /\ ~HasKey(proposals[2], "knowledge_representation")
        /\ ~cv.raised
        /\ cv.counts.keys = <<LabelA, LabelB, Unknown>>
        /\ cv.counts.val[LabelA] = 1
        /\ cv.counts.val[LabelB] = 1
        /\ cv.counts.val[Unknown] = 1

(***************************************************************************)
(* Properties of extract_json_from_response, checked under SpecParse       *)
(***************************************************************************)
ReplyText == call_result[2]
Positions(text, tokens) == {i \in DOMAIN text : text[i] \in tokens}
MinOf(S) == CHOOSE x \in S : \A y \in S : x <= y
MaxOf(S) == CHOOSE x \in S : \A y \in S : y <= x
ReplyParsed ==
    /\ entry = Phase2
    /\ prompt.template = DiscoveryTemplate
    /\ pc # "discover"
    /\ call_result # None
    /\ call_result[1] = "ok"

\* the value of the text from position open to the last closing delimiter
\* that matches the delimiter at open; None without such a delimiter after
\* open and None for invalid JSON
ParsedFrom(text, open) ==
    LET closes == Positions(text, {IF text[open] = LB THEN RB ELSE RC})
    IN  IF closes = {} \/ MaxOf(closes) < open THEN None
        ELSE LET parsed == json_loads(SubSeq(text, open, MaxOf(closes)))
             IN  IF parsed[1] THEN parsed[2] ELSE None

\* C20 as stated: the parse starts at whichever of '[' and '{' occurs
\* first in the reply and ends at the last matching closing delimiter; the
\* result is None, and nothing is raised, without an opening delimiter,
\* without a matching closing delimiter after it, and for invalid JSON.
C20_StartsAtEarliestDelimiter ==
    ReplyParsed =>
        /\ pc # "raised"
        /\ system_types =
               IF Positions(ReplyText, {LB, LC}) = {} THEN None
               ELSE ParsedFrom(ReplyText, MinOf(Positions(ReplyText, {LB, LC})))

\* C20: the parse starts at the first '[' of the reply when the reply has
\* one, wherever a '{' stands, and at the first '{' only in a reply without
\* '['; it ends at the last matching closing delimiter; the result is None,
\* and nothing is raised, without an opening delimiter, without a matching
\* closing delimiter after it, and for invalid JSON.
C20_SquareBracketHasPriority ==
    ReplyParsed =>
        /\ pc # "raised"
        /\ system_types =
               IF Positions(ReplyText, {LB}) # {}
               THEN ParsedFrom(ReplyText, MinOf(Positions(ReplyText, {LB})))
               ELSE IF Positions(ReplyText, {LC}) # {}
               THEN ParsedFrom(ReplyText, MinOf(Positions(ReplyText, {LC})))
               ELSE None

\* a reply whose '{' precedes its '[' was parsed from the '['
C20_Witness ==
    /\ ReplyParsed
    /\ ReplyText = <<LC, RC, LB, RB>>
    /\ system_types = List(<<>>)

(***************************************************************************)
(* Properties of a second run of a stage, checked under SpecRerun          *)
(***************************************************************************)
RerunEnded == Replaying /\ pc \in {"returned", "raised"}

\* C12: a stage run on the record list loaded from the snapshot of its own
\* first run, with the first run's reply for the discovery prompt and for
\* each batch, ends as the first run ended, with every record identical to
\* the first run's and every output file (record snapshots and summaries)
\* identical to the first run's.
C12_SecondRunChangesNothing ==
    RerunEnded =>
        /\ pc = first_run.pc
        /\ proposals = first_run.proposals
        /\ files = first_run.files
        /\ batch_log = first_run.log
        /\ files[SnapshotJson(entry)] = JsonFile(json_dump_records(proposals))

\* a second run over two batches, one merged from a reply that labelled a
\* record and one failed, has ended
C12_Witness ==
    /\ RerunEnded
    /\ pc = "returned"
    /\ Len(batch_log) = 2
    /\ batch_log[1][1] = "ok"
    /\ batch_log[2][1] = "raise"
    /\ \E f \in Range(StageFields(entry)) :
           /\ HasKey(proposals0[1], f)
           /\ proposals0[1].val[f] = LabelA
           /\ proposals[1].val[f] = LabelA

(***************************************************************************)
(* Properties of the extraction, checked under SpecExtract                 *)
(***************************************************************************)
Extracted == entry = Phase1 /\ pc = "returned"
RecordsOf(company) == SelectSeq(proposals, LAMBDA p : p.val["company"] = company)
HasProposalsFile(company) == companies_dir[company] # NoProposalsFile
ProcessingRaised(company) ==
    /\ HasProposalsFile(company)
    /\ extract_company(company, companies_dir[company]).raised

\* the entries of the company's file, the file holding a list of them
GivenEntries(company) ==
    DictGet(json_load(companies_dir[company][2])[2], "proposals", List(<<>>))[2]

\* C17 as stated: after the extraction, a company whose processing raised
\* has no record in the result and its error is printed, a company without
\* a proposals file has no record, and every other company has one record
\* for each entry of its file, in the file's order.
C17_FailedCompanyContributesNothing ==
    Extracted =>
        \A c \in CompanyNames :
            IF ~HasProposalsFile(c) THEN RecordsOf(c) = <<>>
            ELSE IF ProcessingRaised(c)
            THEN /\ RecordsOf(c) = <<>>
                 /\ <<"Error processing", c>> \in Range(console)
            ELSE /\ Len(RecordsOf(c)) = Len(GivenEntries(c))
                 /\ \A i \in DOMAIN RecordsOf(c) :
                        RecordsOf(c)[i].val["proposal_name"]
                            = DictGet(GivenEntries(c)[i][2], "Proposal Name", EmptyStr)

NarrativeFields ==
    {"current_state", "problems", "impact", "target_persona",
     "existing_tooling", "functionality", "problem_solving", "risk_assessment"}
LargestLimit ==
    CHOOSE n \in {text_limits[f] : f \in DOMAIN text_limits} :
        \A f \in DOMAIN text_limits : text_limits[f] <= n
LengthOf(v) == Len(v[2])
\* C18 as stated: after the extraction, every narrative field of every
\* record, target_persona included, is within a fixed budget (here the
\* largest configured one), and within its own limit when it has one.
C18_EveryNarrativeFieldCapped ==
    Extracted =>
        \A i \in DOMAIN proposals : \A f \in NarrativeFields :
            /\ LengthOf(proposals[i].val[f]) <= LargestLimit
            /\ f \in DOMAIN text_limits
                   => LengthOf(proposals[i].val[f]) <= text_limits[f]

\* C18: after the extraction, every field that has an entry in text_limits
\* (current_state, problems, impact, existing_tooling, functionality,
\* problem_solving, risk_assessment) is no longer than its limit in every
\* record; target_persona has no limit and is the input text whole.
C18_FieldsWithLimitCapped ==
    Extracted =>
        \A i \in DOMAIN proposals :
            /\ \A f \in DOMAIN text_limits :
                   LengthOf(proposals[i].val[f]) <= text_limits[f]
            /\ \A c \in CompanyNames :
                   (HasProposalsFile(c) /\ ~ProcessingRaised(c)) =>
                       \A j \in DOMAIN RecordsOf(c) :
                           RecordsOf(c)[j].val["target_persona"]
                               = DictGet(GivenEntries(c)[j][2], "Target Persona",
                                         EmptyStr)

\* a record made from an entry with long texts: cut to the limits, but for
\* target_persona
C18_Witness ==
    /\ Extracted
    /\ \E i \in DOMAIN proposals :
           /\ \A f \in DOMAIN text_limits :
                  LengthOf(proposals[i].val[f]) = text_limits[f]
           /\ LengthOf(proposals[i].val["target_persona"]) = LongTextLength

(***************************************************************************)
(* Properties of main, checked under SpecMain                              *)
(***************************************************************************)
MainDone == entry = Main /\ main_pc = "done"
SummaryDoc == files[AnalysisSummaryJson][2]
\* the value of the member `key` of a JSON object
MemberOf(doc, key) ==
    doc[2][CHOOSE i \in DOMAIN doc[2] : doc[2][i][1] = key][2]
Companies == {proposals[i].val["company"] : i \in DOMAIN proposals}

\* C13: when main has written the final summary, total_proposals is the
\* number of records, num_companies the number of distinct 'company' values,
\* and business_use_cases holds, for every bucket of count_values over
\* 'business_use_case' (a comma-joined value counts once per component, a
\* missing field as 'Unknown'), the number of its occurrences, and nothing
\* else.
C13_SummaryReportsTotals ==
    MainDone =>
        /\ MemberOf(SummaryDoc, "total_proposals") = JNumber(Len(proposals))
        /\ MemberOf(SummaryDoc, "num_companies") = JNumber(Cardinality(Companies))
        /\ LET reported == MemberOf(SummaryDoc, "business_use_cases")[2]
           IN  /\ Len(reported) = Cardinality(AllBuckets("business_use_case"))
               /\ \A b \in AllBuckets("business_use_case") :
                      <<json_key(b), JNumber(Increments("business_use_case", b))>>
                          \in Range(reported)

\* the example of the claim: two companies with one proposal each, labelled
\* A and B, give {A: 1, B: 1} and num_companies = 2
C13_Witness ==
    /\ MainDone
    /\ Len(proposals) = 2
    /\ Companies = {Str(<<"c", "1">>), Str(<<"c", "2">>)}
    /\ MemberOf(SummaryDoc, "num_companies") = JNumber(2)
    /\ MemberOf(SummaryDoc, "business_use_cases")
           = JObject(<< <<LabelA[2], JNumber(1)>>, <<LabelB[2], JNumber(1)>> >>)

\* three records of two companies have been summarised
C13_SharedCompany ==
    /\ MainDone
    /\ Len(proposals) = 3
    /\ MemberOf(SummaryDoc, "num_companies") = JNumber(2)

\* what a stage would touch: records, output files, the frame of a phase
\* function, the state of call_llm
StageState ==
    <<proposals, files, entry, pc, proposals0, batch_log, discovery_log,
      prompts, responses, attempt, call_trace, call_pc, call_result>>
NoProposalFiles == \A c \in DOMAIN companies_dir : companies_dir[c] = NoProposalsFile
Validating == entry = Main /\ main_pc = "validate"
\* main has returned from its validation block
MainExited == main_pc \in {"exit0", "exit1"}

\* C14 (as stated): when the API credential is missing, or the data
\* directory is missing or contains no proposal files, main aborts at the
\* validation: it returns 1 with no record, output file, phase function or
\* LLM call touched, and takes no further step.
C14_InvalidEnvironmentAborts ==
    [][/\ (Validating /\ (~api_key \/ ~dir_exists \/ NoProposalFiles))
            => (main_pc' = "exit1" /\ UNCHANGED StageState)
       /\ main_pc # "exit1"]_vars

\* C14 (amended): when the API credential or the data directory is missing,
\* main aborts at the validation: it returns 1 with no record, output file,
\* phase function or LLM call touched, and takes no further step.
C14_MissingKeyOrDirectoryAborts ==
    [][/\ (Validating /\ (~api_key \/ ~dir_exists))
            => (main_pc' = "exit1" /\ UNCHANGED StageState)
       /\ main_pc # "exit1"]_vars

\* main has returned 1 for a missing data directory, the credential being
\* set and a full run being asked for
C14_Witness ==
    /\ main_pc = "exit1"
    /\ api_key /\ ~dir_exists /\ ~args.validate
    /\ console[Len(console)] = <<"Data directory not found">>
    /\ proposals = <<>> /\ call_trace = <<>>

\* a data directory without proposal files: the extraction has run and
\* written raw_proposals.json, and the discovery prompt has been sent
C14_EmptyDirectoryRuns ==
    /\ NoProposalFiles /\ dir_exists /\ api_key
    /\ entry = Phase2
    /\ call_trace # <<>>
    /\ files[RawJson] = JsonFile(JArray(<<>>))

\* C15: with --validate, whatever the other flags, the only step of main is
\* the environment check: it ends in return 0 or return 1 with no record,
\* output file, phase function or LLM call touched (no extraction, no
\* snapshot load, no call, no write).
C15_ValidateOnlyChecks ==
    [][args.validate =>
          /\ Validating
          /\ main_pc' = (IF validate_environment(api_key, dir_exists,
                                                 companies_dir).ok
                         THEN "exit0" ELSE "exit1")
          /\ UNCHANGED StageState]_vars

\* --validate together with every skip flag and --sample, the check passed,
\* a snapshot of an earlier run on disk: main has returned 0 with no record
\* loaded
C15_Witness ==
    /\ main_pc = "exit0"
    /\ args.validate /\ args.skip_extract /\ args.skip_business
    /\ args.skip_architecture /\ args.skip_implementation /\ args.sample = 1
    /\ files = EarlierRunFiles
    /\ proposals = <<>>
    /\ console[Len(console)] = <<"All checks passed">>

\* main stands at the block of a phase that the flags skip
SkipStep(phase) == entry = Main /\ main_pc = phase /\ Skipped(phase)
PriorSnapshot(phase) ==
    CASE phase = Phase1 -> "raw_proposals.json"
      [] phase = Phase2 -> "proposals_with_business.json"
      [] phase = Phase3 -> "proposals_complete.json"
      [] phase = Phase4 -> "proposals_with_implementation.json"
\* the skipped phase's snapshot is loaded in place of the records in memory,
\* nothing is computed or written
SnapshotLoaded(phase) ==
    /\ proposals' = records_of(json_load(files[PriorSnapshot(phase)][2]))
    /\ main_pc' = After(phase)
    /\ UNCHANGED <<files, entry, pc, call_trace, call_pc>>
\* the missing snapshot is reported and main goes on with its records
MissingSnapshotTolerated(phase) ==
    /\ console' = console \o << <<"Skipping", phase>>,
                               <<"Warning: Could not load", phase>> >>
    /\ proposals' = proposals
    /\ main_pc' = After(phase)
    /\ UNCHANGED <<files, entry, pc, call_trace, call_pc>>

\* C16 (as stated): for each of extraction, business, architecture and
\* implementation, skipping the stage loads its prior snapshot; when the
\* file is missing a warning is printed and main goes on to the next block
\* with the records it had in memory.
C16_EverySkipToleratesMissingSnapshot ==
    [][\A phase \in Phases :
           SkipStep(phase) =>
               IF files[PriorSnapshot(phase)] = NoFile
               THEN MissingSnapshotTolerated(phase)
               ELSE SnapshotLoaded(phase)]_vars

\* C16 (amended): skipping a stage loads its prior snapshot; for business,
\* architecture and implementation a missing file gives a warning and main
\* goes on with the records it had in memory; for the extraction a missing
\* raw_proposals.json ends main with the uncaught error, no warning printed.
C16_ClassificationSkipsTolerateMissingSnapshot ==
    [][\A phase \in Phases :
           SkipStep(phase) =>
               IF files[PriorSnapshot(phase)] # NoFile
               THEN SnapshotLoaded(phase)
               ELSE IF phase \in Stages
               THEN MissingSnapshotTolerated(phase)
               ELSE /\ main_pc' = "crashed"
                    /\ console' = console \o << <<"Skipping", phase>> >>
                    /\ UNCHANGED <<proposals, files>>]_vars

\* the architecture stage was skipped without its snapshot on disk: main
\* stands at the implementation block with the two extracted records,
\* labelled by the business stage only
C16_Witness ==
    /\ entry = Main /\ main_pc = Phase4
    /\ console[Len(console)] = <<"Warning: Could not load", Phase3>>
    /\ Len(proposals) = 2
    /\ \A i \in DOMAIN proposals :
           /\ HasKey(proposals[i], "business_use_case")
           /\ ~HasKey(proposals[i], "architecture_pattern")

\* main ended on the missing raw_proposals.json
C16_SkipExtractCrashed ==
    /\ main_pc = "crashed"
    /\ args.skip_extract
    /\ files[RawJson] = NoFile
    /\ console[Len(console)] = <<"Skipping", Phase1>>

\* main ran every phase: no skip flag, no --validate, data found
FullRun ==
    /\ ~args.skip_extract /\ ~args.skip_business /\ ~args.skip_architecture
    /\ ~args.skip_implementation /\ ~args.validate
Visualized == entry = LoadProposals /\ pc = "returned"
AllStageLabels ==
    {"business_use_case", "architecture_pattern", "data_complexity"}

\* C19: after a full run of the pipeline, the records load_proposals returns
\* are those of the snapshot written by the implementation stage, the last
\* classification stage, and so carry the labels of all three stages.
C19_LoadsFinalSnapshot ==
    (Visualized /\ FullRun) =>
        /\ proposals = records_of(json_load(
                           files["proposals_with_implementation.json"][2]))
        /\ \A i \in DOMAIN proposals :
               \A k \in AllStageLabels : HasKey(proposals[i], k)

\* what the code does: the records returned are those of
\* proposals_complete.json, the snapshot of the architecture stage
C19_LoadsArchitectureSnapshot ==
    Visualized =>
        proposals = records_of(json_load(files["proposals_complete.json"][2]))

\* after a full run over two records, the records returned carry the
\* business and architecture labels and no implementation label, while the
\* final snapshot on disk has them
C19_ImplementationLabelsLost ==
    /\ Visualized /\ FullRun
    /\ Len(proposals) = 2
    /\ \A i \in DOMAIN proposals :
           /\ HasKey(proposals[i], "business_use_case")
           /\ HasKey(proposals[i], "architecture_pattern")
           /\ ~HasKey(proposals[i], "data_complexity")
    /\ LET final == records_of(json_load(
                        files["proposals_with_implementation.json"][2]))
       IN  \A i \in DOMAIN final : HasKey(final[i], "data_complexity")

(***************************************************************************)
(* Properties of batching and of the batch loop                            *)
(***************************************************************************)
\* batch sizes tried on the record list of a state
BatchSizes == 1..(MaxRecords + 1)

IsPartition(items, k, batches) ==
    /\ FlattenSeq(batches) = items
    /\ \A b \in DOMAIN batches :
           IF b < Len(batches) THEN Len(batches[b]) = k
           ELSE Len(batches[b]) \in 1..k
    \* ceil(len(items) / k)
    /\ Len(batches) * k >= Len(items)
    /\ Len(batches) > 0 => (Len(batches) - 1) * k < Len(items)
    /\ items = <<>> => batches = <<>>

\* C21: for every k >= 1, batch_items(items, k) cuts the list into contiguous
\* batches: their concatenation in order is items, every batch but the last
\* has k records, the last has 1..k, there are ceil(len(items)/k) batches, and
\* an empty list gives no batch.
C21_BatchesPartitionTheList ==
    \A k \in BatchSizes : IsPartition(proposals, k, batch_items(proposals, k))

\* the stage is at its second batch of a three-record list cut by two: the
\* first batch holds records 1 and 2, the last one record 3 alone
C21_Witness ==
    /\ entry \in Stages /\ pc = "batch" /\ batch_num = 2
    /\ Len(proposals) = 3
    /\ batch_items(proposals, batch_size(entry))
           = << <<proposals[1], proposals[2]>>, <<proposals[3]>> >>

\* the stage function calls call_llm for a batch in this step
Dispatch ==
    /\ entry \in Stages
    /\ pc' = "batch"
    /\ call_pc' = "request" /\ call_trace' = <<>> /\ attempt' = 0
    /\ call_pc \notin {"request", "sleep"}

\* a step inside call_llm (a request or a sleep between attempts)
InsideCall == pc = "batch" /\ call_pc \in {"request", "sleep"}

\* while the stage is in its loop, the batches before the current one, and
\* only they, have had their reply or failure merged; after the loop all have
C22_OneBatchInFlight ==
    entry \in Stages =>
        /\ pc = "batch" => /\ batch_num \in 1..NumStageBatches
                           /\ Len(batch_log) = batch_num - 1
        /\ pc = "finish" => Len(batch_log) = NumStageBatches

C22_DispatchStep ==
    /\ Dispatch =>
           \* the next batch in list order, the first one at the start
           /\ batch_num' = (IF pc = "batch" THEN batch_num + 1 ELSE 1)
           /\ prompt'.template = ClassifyTemplate(entry)
           /\ prompt'.proposals
                  = [i \in 1..Cardinality(BatchRange(batch_num')) |->
                        proposals'[(batch_num' - 1) * batch_size(entry) + i]]
           \* what the batch before gave has been merged in this very step
           /\ pc = "batch" => /\ call_pc \in {"returned", "raised"}
                              /\ batch_log' = Append(batch_log, call_result)
    \* call_llm runs with the stage waiting: same batch, records untouched
    /\ InsideCall => /\ batch_num' = batch_num /\ pc' = "batch"
                     /\ UNCHANGED <<proposals, batch_log>>
                     /\ ~Dispatch
    \* the batch number only moves forward, one batch at a time
    /\ (entry \in Stages /\ pc = "batch") => batch_num' \in {batch_num, batch_num + 1}

\* C22: within a stage the batches are sent one at a time in list order: the
\* call for batch i+1 starts in the step that merges the reply or failure of
\* batch i, nothing is merged while a call runs, and every batch is handed to
\* call_llm exactly once, a failed or unparseable one included.
C22_BatchesOneAtATimeOnce ==
    []C22_OneBatchInFlight /\ [][C22_DispatchStep]_vars

\* batch 2 (the third record alone) has just been dispatched after the call
\* of batch 1 failed: one failure recorded, one fresh call under way
C22_Witness ==
    /\ entry = Phase3 /\ pc = "batch" /\ batch_num = 2
    /\ batch_log = << <<"raise", APIConnectionError>> >>
    /\ call_pc = "request" /\ call_trace = <<>>
    /\ prompt.proposals = <<proposals[3]>>

(***************************************************************************)
(* Properties of the closing statements of a stage                         *)
(***************************************************************************)
Written(f) == files'[f] # files[f]
AllBatchesDone == Len(batch_log) = NumStageBatches
\* the JSON snapshot of the running stage holds the records as they are now
SnapshotIsCurrent ==
    files[SnapshotJson(entry)] = JsonFile(json_dump_records(proposals))
\* so does its CSV snapshot (no file is written for an empty list)
CsvIsCurrent ==
    \/ proposals = <<>>
    \/ /\ files[SnapshotCsv(entry)] # NoFile
       /\ files[SnapshotCsv(entry)][1] = "csv"
       /\ files[SnapshotCsv(entry)][2] = proposals[1].keys

C23_WriteStep ==
    entry \in Stages =>
        \* nothing is written while a batch is pending
        /\ (files' # files) => AllBatchesDone
        \* the JSON snapshot is written first and alone
        /\ Written(SnapshotJson(entry)) =>
               \A f \in FileNames \ {SnapshotJson(entry)} : ~Written(f)
        \* the CSV snapshot is written with the JSON snapshot in place
        /\ Written(SnapshotCsv(entry)) => SnapshotIsCurrent
        \* the summary is written with both in place
        /\ (Written(SummaryJson(entry)) \/ Written(BusinessSummaryCsv))
               => SnapshotIsCurrent /\ CsvIsCurrent
        \* no other file is written by a stage
        /\ \A f \in FileNames : Written(f) =>
               f \in {SnapshotJson(entry), SnapshotCsv(entry), SummaryJson(entry),
                      BusinessSummaryCsv}

\* C23: a stage writes its files only after every batch has been processed,
\* the JSON snapshot of the records before the CSV snapshot and both before
\* the summary; in particular a stage that ends by an exception before its
\* last batch has written nothing, so that existing snapshots stay as they
\* were.
C23_FilesWrittenAfterTheLoopInOrder == [][C23_WriteStep]_vars

\* the architecture stage has saved its JSON snapshot and not yet its CSV
\* snapshot, in an outputs directory that was empty at the start
C23_Witness ==
    /\ entry = Phase3
    /\ Len(proposals) = 2 /\ AllBatchesDone
    /\ SnapshotIsCurrent
    /\ files[SnapshotCsv(Phase3)] = NoFile
    /\ files[SummaryJson(Phase3)] = NoFile

\* the business stage has ended by the error of its discovery call, before
\* any batch: the snapshot of the earlier run is still on disk
C23_EarlierSnapshotKept ==
    /\ entry = Phase2 /\ pc = "raised"
    /\ batch_log = <<>> /\ Len(proposals) = 3
    /\ files = EarlierRunFiles

KeySet(rec) == Range(rec.keys)
\* the stage is about to call save_csv on its record list
AtCsvSave == entry \in Stages /\ pc = "save_csv"

\* C24: when a stage saves its CSV snapshot, every record has the key set of
\* the first record, whatever the replies were, so that the write neither
\* fails nor drops a value.
C24_RecordsHomogeneousAtCsvSave ==
    AtCsvSave => \A i \in DOMAIN proposals :
                     KeySet(proposals[i]) = KeySet(proposals[1])

\* a reply that names the second record only: the first record has no
\* business_use_case, the second has one, and save_csv has raised
C24_CsvSaveRaised ==
    /\ entry = Phase2 /\ pc = "raised"
    /\ Len(proposals) = 2 /\ Len(batch_log) = 1
    /\ batch_log[1][1] = "ok"
    /\ ~HasKey(proposals[1], "business_use_case")
    /\ HasKey(proposals[2], "business_use_case")
    /\ files[SnapshotJson(Phase2)] # NoFile
    /\ files[SummaryJson(Phase2)] = NoFile

(***************************************************************************)
(* Properties of save_csv                                                  *)
(***************************************************************************)
CsvFile == files'[SnapshotCsv(entry)]
Columns == proposals[1].keys
\* records with a key that the first record does not have
ExtraKeyed == {i \in DOMAIN proposals : ~(KeySet(proposals[i]) \subseteq KeySet(proposals[1]))}
\* row i of the file holds, column by column, the record's value or an empty
\* cell where the record lacks the key
RowAsRecord(i) ==
    /\ Len(CsvFile[3][i]) = Len(Columns)
    /\ \A j \in DOMAIN Columns :
           CsvFile[3][i][j] = IF HasKey(proposals[i], Columns[j])
                              THEN CsvCell(proposals[i].val[Columns[j]])
                              ELSE EmptyStr

\* C25 (as stated): save_csv takes its columns from the first record; a later
\* record with a key absent from the first does not stop the call (its value
\* is left out), a later record lacking a key gets an empty cell, and an
\* empty list writes no file.
C25_ExtraKeysDropped ==
    [][AtCsvSave =>
          IF proposals = <<>> THEN UNCHANGED files /\ pc' = "summary"
          ELSE /\ pc' = "summary"
               /\ CsvFile[1] = "csv" /\ CsvFile[2] = Columns
               /\ Len(CsvFile[3]) = Len(proposals)
               /\ \A i \in DOMAIN proposals : RowAsRecord(i)]_vars

\* C25 (amended): save_csv takes its columns from the first record; a later
\* record lacking a key gets an empty cell; an empty list writes no file; a
\* later record with a key absent from the first makes the call raise, the
\* file being left with the header and the rows before that record.
C25_ExtraKeysRaise ==
    [][AtCsvSave =>
          IF proposals = <<>> THEN UNCHANGED files /\ pc' = "summary"
          ELSE /\ CsvFile[1] = "csv" /\ CsvFile[2] = Columns
               /\ \A i \in DOMAIN CsvFile[3] : RowAsRecord(i)
               /\ IF ExtraKeyed = {}
                  THEN pc' = "summary" /\ Len(CsvFile[3]) = Len(proposals)
                  ELSE /\ pc' = "raised"
                       /\ \A i \in DOMAIN proposals :
                              i \in DOMAIN CsvFile[3]
                                  <=> \A j \in ExtraKeyed : i < j]_vars

\* the CSV snapshot of the architecture stage has been written with an empty
\* cell for the second record, which lacks architecture_pattern
C25_Witness ==
    /\ entry = Phase3 /\ pc = "summary"
    /\ Len(proposals) = 2
    /\ HasKey(proposals[1], "architecture_pattern")
    /\ ~HasKey(proposals[2], "architecture_pattern")
    /\ LET written == files[SnapshotCsv(Phase3)]
           col == CHOOSE j \in DOMAIN written[2] :
                      written[2][j] = "architecture_pattern"
       IN  /\ Len(written[3]) = 2
           /\ written[3][1][col] # EmptyStr
           /\ written[3][2][col] = EmptyStr

(***************************************************************************)
(* Properties of the architecture merge                                    *)
(***************************************************************************)
ListLikeFields == {"knowledge_representation", "input_modalities"}
ReplyObjects == extract_json_from_response(call_result[2])
IsStrList(v) == IsList(v) /\ \A i \in DOMAIN v[2] : IsStr(v[2][i])
ProposalIndex(obj) == obj[2].val["proposal_index"][2]
\* the architecture stage merges a reply that is an array of objects, each
\* naming a record of the batch of its own, with both fields in one of the
\* three shapes of the claim
MergingObjects ==
    /\ entry = Phase3 /\ pc = "batch" /\ call_pc = "returned"
    /\ IsList(ReplyObjects) /\ ReplyObjects[2] # <<>>
    /\ \A n \in DOMAIN ReplyObjects[2] :
           /\ HasIntIndex(Phase3, ReplyObjects[2][n])
           /\ ProposalIndex(ReplyObjects[2][n]) \in 1..Cardinality(BatchRange(batch_num))
           /\ \A f \in ListLikeFields :
                  \/ ~HasKey(ReplyObjects[2][n][2], f)
                  \/ IsStr(ReplyObjects[2][n][2].val[f])
                  \/ IsStrList(ReplyObjects[2][n][2].val[f])
    /\ \A n, o \in DOMAIN ReplyObjects[2] :
           n # o => ProposalIndex(ReplyObjects[2][n]) # ProposalIndex(ReplyObjects[2][o])
\* position in the record list of the record the object names
NamedRecord(obj) == BatchLo(batch_num, batch_size(entry)) + ProposalIndex(obj) - 1
\* the cases of the claim: absent, a string, an array of strings
StoredAsStated(obj, f) ==
    IF ~HasKey(obj[2], f)
    THEN proposals'[NamedRecord(obj)].val[f] = Unknown
    ELSE LET v == obj[2].val[f]
         IN  /\ IsStr(v) => proposals'[NamedRecord(obj)].val[f] = v
             /\ IsStrList(v) =>
                    proposals'[NamedRecord(obj)].val[f]
                        = Str(Concat([i \in DOMAIN v[2] |-> v[2][i][2]], CommaSpace))

\* C26: in the architecture stage, for knowledge_representation and for
\* input_modalities, an array of strings is stored joined with ', ', a single
\* string is stored unchanged, and an absent value is stored as 'Unknown'.
C26_ListLikeFieldsNormalised ==
    [][MergingObjects =>
          \A n \in DOMAIN ReplyObjects[2] : \A f \in ListLikeFields :
              StoredAsStated(ReplyObjects[2][n], f)]_vars

\* what holds: knowledge_representation is stored as stated in the three
\* cases, input_modalities for an array of strings and for an absent value
C26_StoredButForStringModalities ==
    [][MergingObjects =>
          \A n \in DOMAIN ReplyObjects[2] :
              /\ StoredAsStated(ReplyObjects[2][n], "knowledge_representation")
              /\ (~HasKey(ReplyObjects[2][n][2], "input_modalities")
                  \/ ~IsStr(ReplyObjects[2][n][2].val["input_modalities"]))
                     => StoredAsStated(ReplyObjects[2][n], "input_modalities")]_vars

\* the three cases of knowledge_representation and the two good cases of
\* input_modalities, each after its merge
C26_AbsentStoredAsUnknown ==
    /\ entry = Phase3 /\ Len(batch_log) = 1 /\ batch_log[1][1] = "ok"
    /\ Len(proposals) = 2
    /\ LET objs == extract_json_from_response(batch_log[1][2])
       IN  /\ IsList(objs) /\ Len(objs[2]) = 2
           /\ IsDict(objs[2][2])
           /\ ~HasKey(objs[2][2][2], "knowledge_representation")
           /\ HasKey(objs[2][2][2], "input_modalities")
    /\ HasKey(proposals[2], "input_modalities")
    /\ proposals[2].val["knowledge_representation"] = Unknown
    /\ proposals[2].val["input_modalities"] = LabelB
C26_ArrayStoredJoined ==
    /\ entry = Phase3 /\ Len(batch_log) = 1 /\ batch_log[1][1] = "ok"
    /\ LET objs == extract_json_from_response(batch_log[1][2])
       IN  /\ IsList(objs) /\ Len(objs[2]) = 1
           /\ IsDict(objs[2][1])
           /\ HasKey(objs[2][1][2], "input_modalities")
           /\ objs[2][1][2].val["input_modalities"] = List(<<LabelA, LabelB>>)
    /\ HasKey(proposals[1], "input_modalities")
    /\ proposals[1].val["input_modalities"] = Str(<<"A", ",", " ", "B">>)

\* the reply gave input_modalities as the string "tx": the record holds
\* "t, x", the characters of the string joined with ', '
C26_StringModalitiesSplit ==
    /\ entry = Phase3 /\ Len(batch_log) = 1 /\ batch_log[1][1] = "ok"
    /\ LET objs == extract_json_from_response(batch_log[1][2])
       IN  /\ IsList(objs) /\ Len(objs[2]) = 1
           /\ IsDict(objs[2][1])
           /\ HasKey(objs[2][1][2], "input_modalities")
           /\ objs[2][1][2].val["input_modalities"] = Str(<<"t", "x">>)
    /\ HasKey(proposals[1], "input_modalities")
    /\ proposals[1].val["input_modalities"] = Str(<<"t", ",", " ", "x">>)

(***************************************************************************)
(* Properties of the business stage                                        *)
(***************************************************************************)
\* call_llm is entered in this step
CallStarts == call_pc' = "request" /\ call_trace' = <<>> /\ call_pc \notin {"request", "sleep"}
\* the vocabulary the discovery reply gave
Discovered == extract_json_from_response(discovery_log[2])
Vocabulary ==
    IF IsList(system_types) THEN Range(system_types[2]) ELSE {}
\* the business stage has run its batch loop to the end
BusinessStageDone ==
    /\ entry = Phase2 /\ pc \in {"finish", "save_csv", "summary", "returned"}
    /\ Truthy(system_types)

\* one discovery call, over the first min(DiscoverySample, n) records, made
\* from the start of the function; every later call is a classification
\* call and carries the vocabulary parsed from the discovery reply
C27_CallStep ==
    (entry = Phase2 /\ CallStarts) =>
        IF pc = "start"
        THEN /\ prompt'.template = DiscoveryTemplate
             /\ prompt'.proposals
                    = [i \in 1..Min(DiscoverySample, Len(proposals)) |-> proposals[i]]
             /\ batch_log = <<>> /\ discovery_log = None
        ELSE /\ prompt'.template = ClassifyTemplate(Phase2)
             /\ discovery_log' # None /\ discovery_log'[1] = "ok"
             /\ prompt'.system_types = extract_json_from_response(discovery_log'[2])
             /\ system_types' = prompt'.system_types
             /\ pc = "batch" => UNCHANGED <<system_types, discovery_log>>

C27_LabelsFromVocabulary ==
    BusinessStageDone =>
        \A i \in DOMAIN proposals :
            /\ HasKey(proposals[i], "business_use_case")
            /\ proposals[i].val["business_use_case"] \in Vocabulary \cup {Unknown}

\* C27: the business stage makes one discovery call, over the first
\* min(60, n) records, before any classification call, hands the discovered
\* vocabulary to every batch, and leaves every record with a
\* business_use_case that is in that vocabulary or is 'Unknown'.
C27_OneVocabularyBoundsLabels ==
    []C27_LabelsFromVocabulary /\ [][C27_CallStep]_vars

\* what holds: the discovery call and the vocabulary handed to the batches
C27_OneDiscoveryOneVocabulary == [][C27_CallStep]_vars

\* the vocabulary is [A]; the reply of the batch labels the record B, and
\* the stage has returned with that label
C27_LabelOutsideVocabulary ==
    /\ entry = Phase2 /\ pc = "returned"
    /\ system_types = List(<<LabelA>>)
    /\ Len(proposals) = 1
    /\ HasKey(proposals[1], "business_use_case")
    /\ proposals[1].val["business_use_case"] = LabelB

\* the second batch of a three-record list has been sent with the
\* vocabulary of the discovery reply, which was asked over two records
C27_SecondBatchSameVocabulary ==
    /\ entry = Phase2 /\ pc = "batch" /\ batch_num = 2
    /\ Len(proposals) = 3
    /\ system_types = List(<<LabelA, LabelB>>)
    /\ prompt.system_types = system_types
    /\ prompt.proposals = <<proposals[3]>>

(***************************************************************************)
(* The cluster summary of the business stage: the stage has labelled up to *)
(* MaxSummaryRecords records, saved both snapshots, and now generates and  *)
(* saves the summary                                                       *)
(***************************************************************************)
MaxSummaryRecords == 4
LabelAB == Str(<<"A", ",", " ", "B">>)
NotNamed == <<"not named">>
\* what the classification reply gave for a record: a label, a comma-joined
\* label, or nothing (the reply does not name the record)
LabelChoices == {LabelA, LabelB, LabelAB, NotNamed}
Labellings == UNION {[1..n -> LabelChoices] : n \in 0..MaxSummaryRecords}

\* the reply of batch b that gives the labelling: one object per named
\* record, or prose only when no record of the batch is named
LabellingReply(labelling, b) ==
    LET lo == BatchLo(b, batch_size(Phase2))
        hi == BatchHi(b, batch_size(Phase2), Len(labelling))
        named == SelectSeq([j \in 1..(hi - lo + 1) |-> j],
                           LAMBDA j : labelling[lo + j - 1] # NotNamed)
    IN  IF named = <<>> THEN <<W>>
        ELSE ArrayText([n \in DOMAIN named |->
                           FullObject(Phase2, named[n], labelling[lo + named[n] - 1])])

RECURSIVE LabelledUpTo(_, _)
\* the raw records after the replies of the first b batches were merged
LabelledUpTo(labelling, b) ==
    IF b = 0 THEN Evaluated([i \in DOMAIN labelling |-> RawRecord(i)])
    ELSE LET before == LabelledUpTo(labelling, b - 1)
         IN  Evaluated(WithBatch(Phase2, before, b,
                           merge_response(Phase2, BatchOf(Phase2, before, b),
                                          LabellingReply(labelling, b))))

Labelled(labelling) ==
    LabelledUpTo(labelling, NumBatches(Len(labelling), batch_size(Phase2)))

SummaryVocabulary == <<W, LB, LabelA, COMMA, LabelB, COMMA, LabelAB, RB>>

InitSummary ==
    /\ entry = Phase2
    /\ pc = "summary"
    /\ \E labelling \in Labellings :
         \E props \in {Labelled(labelling)} :
           \E c1 \in {save_snapshot(Phase2, props, [f \in FileNames |-> NoFile])} :
             \E c2 \in {save_snapshot_csv(Phase2, props, c1.files)} :
               LET batches == NumBatches(Len(props), batch_size(Phase2))
               IN  /\ ~c1.raised /\ ~c2.raised
                   /\ proposals = props
                   /\ proposals0 = Evaluated([i \in DOMAIN labelling |-> RawRecord(i)])
                   /\ files = c2.files
                   /\ batch_num = batches + 1
                   /\ batch_log = [b \in 1..batches |->
                                      <<"ok", LabellingReply(labelling, b)>>]
                   /\ prompt = IF batches = 0
                               THEN render_prompt(DiscoveryTemplate, <<>>, None)
                               ELSE render_prompt(ClassifyTemplate(Phase2),
                                        BatchOf(Phase2, LabelledUpTo(labelling, batches - 1),
                                                batches),
                                        extract_json_from_response(SummaryVocabulary))
                   /\ call_result = IF batches = 0 THEN <<"ok", SummaryVocabulary>>
                                    ELSE <<"ok", LabellingReply(labelling, batches)>>
    /\ system_types = extract_json_from_response(SummaryVocabulary)
    /\ discovery_log = <<"ok", SummaryVocabulary>>
    /\ prompts = <<>>
    /\ responses = <<>>
    /\ max_retries = DefaultMaxRetries
    /\ attempt = 0
    /\ call_trace = << <<"request", call_result>> >>
    /\ call_pc = "idle"
    /\ CalledAlone

NextSummary == StageSummary

SpecSummary == InitSummary /\ [][NextSummary]_vars

(***************************************************************************)
(* Properties of generate_cluster_summary, checked under SpecSummary       *)
(***************************************************************************)
ClusterField == "business_use_case"
ClusterSummary == generate_cluster_summary(proposals, ClusterField)
\* the whole value of the cluster field of a record
WholeValue(rec) == IF HasKey(rec, ClusterField) THEN rec.val[ClusterField] ELSE Unknown
MembersOf(name) == {i \in DOMAIN proposals : WholeValue(proposals[i]) = name}
CountOf(cluster) == cluster.val["count"][2]
RECURSIVE SumOfCounts(_)
SumOfCounts(summary) ==
    IF summary = <<>> THEN 0
    ELSE CountOf(Head(summary)) + SumOfCounts(Tail(summary))
\* number of examples in the ' | '-joined text (names hold no '|')
ExamplesIn(chars) ==
    IF chars = <<>> THEN 0
    ELSE Cardinality({i \in DOMAIN chars : chars[i] = "|"}) + 1

\* C28: generate_cluster_summary groups the records by the whole value of the
\* cluster field (missing: 'Unknown'; comma-joined values are one value):
\* the counts sum to the number of records, num_companies is the number of
\* distinct companies of the cluster and lies in 1..count, clusters come in
\* non-increasing order of count, and at most three examples are given; the
\* stage saves this summary as business_clusters_summary.json.
C28_ClusterSummaryGroupsWholeValues ==
    (entry = Phase2 /\ pc \in {"summary", "returned"}) =>
        /\ SumOfCounts(ClusterSummary) = Len(proposals)
        /\ {ClusterSummary[r].val["cluster"] : r \in DOMAIN ClusterSummary}
               = {WholeValue(proposals[i]) : i \in DOMAIN proposals}
        /\ \A r, s \in DOMAIN ClusterSummary :
               r # s => ClusterSummary[r].val["cluster"] # ClusterSummary[s].val["cluster"]
        /\ \A r \in DOMAIN ClusterSummary :
               LET cluster == ClusterSummary[r]
                   members == MembersOf(cluster.val["cluster"])
                   companies == {proposals[i].val["company"] : i \in members}
               IN  /\ CountOf(cluster) = Cardinality(members)
                   /\ cluster.val["num_companies"] = PInt(Cardinality(companies))
                   /\ cluster.val["num_companies"][2] \in 1..CountOf(cluster)
                   /\ ExamplesIn(cluster.val["example_proposals"][2])
                          = Min(CountOf(cluster), 3)
                   /\ r < Len(ClusterSummary)
                          => CountOf(cluster) >= CountOf(ClusterSummary[r + 1])
        /\ pc = "returned" =>
               files[SummaryJson(Phase2)] = JsonFile(json_dump_records(ClusterSummary))

\* four records labelled A: one cluster of four, two companies, three
\* examples, saved by the stage
C28_Witness ==
    /\ entry = Phase2 /\ pc = "returned"
    /\ Len(proposals) = 4
    /\ \A i \in DOMAIN proposals : WholeValue(proposals[i]) = LabelA
    /\ Len(ClusterSummary) = 1
    /\ CountOf(ClusterSummary[1]) = 4
    /\ ClusterSummary[1].val["num_companies"] = PInt(2)
    /\ ExamplesIn(ClusterSummary[1].val["example_proposals"][2]) = 3

\* a comma-joined value and a missing value: 'A, B' is a cluster of its own
\* and the record without the field counts under 'Unknown', after the larger
\* cluster A
C28_WholeValuesAndUnknown ==
    /\ entry = Phase2 /\ pc = "returned"
    /\ Len(proposals) = 4
    /\ ~HasKey(proposals[2], ClusterField)
    /\ Len(ClusterSummary) = 3
    /\ ClusterSummary[1].val["cluster"] = LabelA /\ CountOf(ClusterSummary[1]) = 2
    /\ {ClusterSummary[2].val["cluster"], ClusterSummary[3].val["cluster"]}
           = {LabelAB, Unknown}

(***************************************************************************)
(* Properties of a business stage without vocabulary, within main          *)
(***************************************************************************)
\* the discovery call of this run returned a text without data
NoVocabulary ==
    /\ discovery_log # None /\ discovery_log[1] = "ok"
    /\ ~Truthy(extract_json_from_response(discovery_log[2]))
\* the business stage stands before or at its discovery call
BeforeVocabulary == entry = Phase2 /\ pc \in {"start", "discover"}

C29_NoVocabularyStep ==
    \* up to the parse of the discovery reply nothing is modified or written
    /\ BeforeVocabulary => UNCHANGED <<proposals, files>>
    \* a reply without data ends the stage there, without another call
    /\ (BeforeVocabulary /\ pc = "discover" /\ call_pc = "returned"
        /\ ~Truthy(extract_json_from_response(call_result[2])))
           => pc' = "returned" /\ ~CallStarts
    \* the architecture stage that follows labels every record 'Unknown'
    /\ (entry = Phase3 /\ pc = "start" /\ NoVocabulary)
           => \A i \in DOMAIN proposals :
                  /\ HasKey(proposals'[i], "business_use_case")
                  /\ proposals'[i].val["business_use_case"] = Unknown

\* the business stage has returned for want of a vocabulary: the records
\* are those it received, no batch was sent
C29_ReturnedUntouched ==
    (entry = Phase2 /\ pc = "returned" /\ NoVocabulary) =>
        /\ proposals = proposals0
        /\ batch_log = <<>>
        /\ prompt.template = DiscoveryTemplate

\* C29: when the discovery reply holds no parseable JSON or an empty list,
\* the business stage returns its records unmodified, makes no
\* classification call and writes no file, so that an earlier
\* proposals_with_business snapshot stays as it was; the architecture stage
\* that follows sets business_use_case = 'Unknown' on every record.
C29_NoVocabularyNoLabels ==
    []C29_ReturnedUntouched /\ [][C29_NoVocabularyStep]_vars

\* the discovery reply was an empty array, files of an earlier run on disk:
\* the architecture stage has labelled the two extracted records 'Unknown'
\* and the earlier business snapshot is still the earlier run's
C29_Witness ==
    /\ entry = Phase3 /\ pc = "batch"
    /\ discovery_log = <<"ok", <<W, LB, RB>>>>
    /\ Len(proposals) = 2
    /\ \A i \in DOMAIN proposals : proposals[i].val["business_use_case"] = Unknown
    /\ files[SnapshotJson(Phase2)] = EarlierRunFiles[SnapshotJson(Phase2)]
    /\ files[SnapshotJson(Phase2)] # NoFile

(***************************************************************************)
(* Properties of the skip blocks of main                                   *)
(***************************************************************************)
\* the stage whose block follows the block of the phase (after the last
\* one, the summary)
NextStage(phase) == IF phase = Phase1 THEN Phase2 ELSE After(phase)
\* the phase is skipped and its snapshot is on disk
SkipLoads(phase) == Skipped(phase) /\ files[SkipSnapshot(phase)] # NoFile
\* the records of the snapshot of the phase
LoadedRecords(phase) == records_of(load_json(files, SkipSnapshot(phase)).data)
\* main stands before the block that follows the block of the phase
HandsOnFrom(phase) == entry = Main /\ main_pc = NextStage(phase)

\* the statement for every phase, the extraction included: what a skipped
\* phase loaded is what the next stage receives
C30_SkipHandsOnSnapshot ==
    \A phase \in Phases :
        (SkipLoads(phase) /\ HandsOnFrom(phase)) =>
            proposals = LoadedRecords(phase)

\* C30: a skipped classification stage whose snapshot loads replaces the
\* records in memory by the snapshot's contents, and exactly these are
\* handed to the next stage, whatever earlier stages of the run computed and
\* whatever --sample chose; after a skipped extraction the loaded records
\* are in memory when the sampling block is reached, and the business stage
\* receives them or, under --sample, a sample of them.
C30_SkipReplacesRecords ==
    /\ \A phase \in Stages :
           (SkipLoads(phase) /\ HandsOnFrom(phase)) =>
               proposals = LoadedRecords(phase)
    /\ (SkipLoads(Phase1) /\ entry = Main /\ main_pc = "sample") =>
           proposals = LoadedRecords(Phase1)
    /\ (SkipLoads(Phase1) /\ HandsOnFrom(Phase1)) =>
           IF args.sample # 0 /\ args.sample < Len(LoadedRecords(Phase1))
           THEN proposals \in Samples(LoadedRecords(Phase1), args.sample)
           ELSE proposals = LoadedRecords(Phase1)

\* --sample 1, the business stage run on the one sampled record and its
\* snapshot written, the architecture stage skipped: the implementation
\* stage is reached with all records of the earlier run's
\* proposals_complete.json, none of them the record just labelled
C30_Witness ==
    /\ entry = Main /\ main_pc = Phase4
    /\ args.sample = 1 /\ ~args.skip_extract
    /\ ~args.skip_business /\ args.skip_architecture
    /\ files[SnapshotJson(Phase2)] # NoFile
    /\ files[SnapshotJson(Phase2)] # EarlierRunFiles[SnapshotJson(Phase2)]
    /\ Len(records_of(load_json(files, SnapshotJson(Phase2)).data)) = 1
    /\ proposals = EarlierRecords(2)
    /\ Len(proposals) = MaxRecords

\* --skip-extract with --sample 1: the business stage is reached with one
\* of the loaded records
C30_SampleOfSnapshot ==
    /\ HandsOnFrom(Phase1) /\ SkipLoads(Phase1)
    /\ args.sample = 1
    /\ Len(proposals) = 1
    /\ Len(LoadedRecords(Phase1)) = MaxRecords

====
